---- MODULE Spec2Model ----
(***************************************************************************)
(* Serial-link buffering and framing subsystem:                            *)
(*   DataParser/circular_buffer.py   CircularBuffer                        *)
(*   DataStructures/data_frame.py    DataFrame, DataFramePublisher         *)
(*   UartSrc/simple_uart.py          SimpleUart (RX worker, decode worker) *)
(*                                                                         *)
(* SpecBuf drives one CircularBuffer through its public methods.           *)
(* SpecDec runs the RX worker, the decode worker and the subscribers of    *)
(* the publisher on an inbound byte stream; SpecRace adds the calls of     *)
(* other threads on the inbound buffer (receive, clear_rx_buffer, close).  *)
(* SpecLock runs two threads through the methods of one CircularBuffer,    *)
(* one statement group at a time. SpecBus drives the DataFramePublisher.   *)
(* SpecTx runs send(), clear_tx_buffer() and the TX worker. SpecStop runs  *)
(* the three workers statement by statement together with send() and       *)
(* close(), with failing serial calls; SpecCancel is the same scenario     *)
(* without failures and with the workers scheduled fairly. SpecSend runs   *)
(* send() with the TX worker and close(). SpecFrame decodes data-frame     *)
(* bodies, SpecCtl packs and unpacks UartControl (command_frame.py),       *)
(* SpecPub runs publish, subscribe, unsubscribe and the file writers'      *)
(* buffer reads under the publisher lock and the buffer locks, and         *)
(* SpecLive runs the decode worker on a device that keeps sending.         *)
(***************************************************************************)
EXTENDS Integers, Sequences, FiniteSets, TLC

VARIABLES
    \* ---- one CircularBuffer driven through its methods (SpecBuf) ----
    cb,          \* the buffer object: size, buffer_type, buffer, read_pos, write_pos, available
    last_op,     \* name of the last method called on cb
    last_arg,    \* its size argument (read/peek/consume) or the length of the data (write)
    last_ret,    \* its return value
    accepted,    \* history: concatenation of the items each write stored
    removed,     \* history: number of items taken out so far (read, consume, clear)
    issued,      \* history: number of items handed to write so far
    \* ---- SimpleUart with its workers (SpecDec, SpecRace) ----
    running,     \* SimpleUart.running
    wire,        \* bytes the remote device has still to send (current segment)
    in_waiting,  \* bytes waiting in the serial port (serial.in_waiting / serial.read)
    segs,        \* history: kinds of the segments put on the wire so far
    rx_buffer,   \* SimpleUart.rx_buffer
    rx_bytes,    \* SimpleUart.rx_bytes
    errors,      \* SimpleUart.errors
    error_log,   \* messages handed to error_callback, in order
    frame_state, \* local frame_state of _parse_worker
    pc,          \* position of the decode worker inside _parse_worker
    cmd_id,      \* local cmd_id of _parse_worker
    length,      \* local length of _parse_worker
    subscribers, \* DataFramePublisher._subscribers (set of buffer handles)
    bufs,        \* the consumer buffers, by handle
    fed,         \* history: bytes stored into rx_buffer so far (the inbound stream)
    seen,        \* history: the last two bytes the decode worker took with read(1)
    steals,      \* history: number of calls of other threads on rx_buffer so far
    published,   \* history: frames passed to DataFramePublisher.publish, in order
    bodies,      \* history: lead bytes and body each published frame was built from
    callback_log,\* frames passed to frame_parsed_callback, in order
    cmd_log,     \* command frames reported as received (print at line 410), in order
    attempts,    \* history: outcome of every frame attempt that ended, in order
    due,         \* history: per consumer, the frames published while it was registered
    got,         \* history: per consumer, the frames it has read from its buffer
    \* ---- threads calling one CircularBuffer concurrently (SpecLock) ----
    lock,        \* owner of cb.lock, or "none"
    thr,         \* per thread: where it is inside a method of cb, and its locals
    \* ---- SimpleUart from open() to close(): port, TX side, callers (SpecTx, SpecStop) ----
    is_open,     \* serial.is_open (the port object exists once open() has run)
    tx_buffer,   \* SimpleUart.tx_buffer
    tx_bytes,    \* SimpleUart.tx_bytes
    rx_pc,       \* position of the RX worker inside _rx_worker
    rx_data,     \* local data of _rx_worker
    tx_pc,       \* position of the TX worker inside _tx_worker
    tx_available,\* local available of _tx_worker
    tx_data,     \* local data of _tx_worker
    close_pc,    \* position of the thread that calls close()
    send_pc,     \* position of the thread that calls send()
    send_data,   \* argument data of the send() in progress
    send_ret,    \* return value of the last send()
    tx_issued,   \* history: number of bytes handed to send so far
    tx_accepted, \* history: concatenation of the bytes send stored in tx_buffer
    tx_cleared,  \* history: concatenation of the bytes clear() discarded from tx_buffer
    sent,        \* history: the chunks handed to serial.write, in order
    flushed,     \* history: number of calls of serial.flush
    faults,      \* history: number of failures the port or a callback has raised
    \* ---- threads calling the DataFramePublisher and the consumer buffers (SpecPub) ----
    pub_lock,    \* owner of DataFramePublisher._lock, or "none"
    buf_lock,    \* per consumer buffer: owner of its lock, or "none"
    bt           \* per thread: where it is inside publish, subscribe, unsubscribe or read

bufVars == <<cb, last_op, last_arg, last_ret, accepted, removed, issued>>

decVars == <<running, wire, in_waiting, segs, rx_buffer, rx_bytes, errors, error_log,
             frame_state, pc, cmd_id, length, subscribers, bufs, fed, seen, steals,
             published, bodies, callback_log, cmd_log, attempts, due, got>>

lockVars == <<lock, thr>>

drvVars == <<is_open, tx_buffer, tx_bytes, rx_pc, rx_data, tx_pc, tx_available, tx_data,
             close_pc, send_pc, send_data, send_ret, tx_issued, tx_accepted, tx_cleared, sent,
             flushed, faults>>

busVars == <<pub_lock, buf_lock, bt>>

vars == <<bufVars, decVars, lockVars, drvVars, busVars>>

----------------------------------------------------------------------------
(* Bounds of the model *)

MaxCap == 3        \* largest capacity tried for the buffer of SpecBuf
MaxWrite == 4      \* longest data handed to one write in SpecBuf
MaxItems == 6      \* items handed to write in one run of SpecBuf (bounds the histories)
MaxSize == 4       \* largest size argument tried for read / peek / consume
MaxNeg == 2        \* most negative size argument tried
MaxSegs == 3       \* segments (frames, stray bytes) the device sends in one run
RxSize == 41       \* buffer_size of SimpleUart (rx_buffer)
SubCap == 1        \* capacity of the smaller consumer buffer
MaxLag == 2        \* bytes the decode worker may be behind when the device sends again
Chunk == 3         \* bytes of a split arrival on the serial port
MaxRaceSegs == 2   \* segments the device sends in one run of SpecRace
LockCap == 2       \* capacity of the buffer shared by the threads of SpecLock
MaxLockArg == 2    \* largest size or data length a thread of SpecLock passes
TxChunk == 2       \* bytes the TX worker takes per round (1024 at line 244), scaled down
MaxSend == 4       \* bytes handed to send() in one run
MaxFaults == 1     \* failures the port or a callback raises in one run
TxSize == 3        \* buffer_size of SimpleUart (tx_buffer) in SpecTx and SpecStop
MaxPub == 2        \* frames published in one run of SpecBus
MaxPattern == 2      \* the byte patterns of the bodies handed to the decoder: 0..MaxPattern
RxLive == 256        \* capacity of the inbound buffer in SpecLive
LiveChunk == 100     \* bytes the port delivers at once in SpecLive: 1 or LiveChunk
MaxSteals == 2     \* calls of other threads on rx_buffer in one run of SpecRace

Min(a, b) == IF a < b THEN a ELSE b

----------------------------------------------------------------------------
(* DataParser/circular_buffer.py *)

BYTEARRAY == "bytearray"
LIST == "list"

\* Python's None, as stored in the slots of a fresh LIST buffer
None == [none |-> TRUE]

\* CircularBuffer.__init__
NewBuffer(size, buffer_type) ==
    [size |-> size,
     buffer_type |-> buffer_type,
     read_pos |-> 0,
     write_pos |-> 0,
     available |-> 0,
     buffer |-> [p \in 0..(size - 1) |-> IF buffer_type = LIST THEN None ELSE 0]]

\* isinstance checks of write: a byte buffer takes bytes, a list buffer takes a list
KindOK(buffer_type, kind) ==
    IF buffer_type = BYTEARRAY THEN kind = "bytes" ELSE kind = "list"

\* variant of WriteLoop: every round copies from the start of data (start_idx dropped)
RECURSIVE WriteLoopNoOffset(_, _, _, _, _, _)
WriteLoopNoOffset(buffer, write_pos, size, data, data_len, remaining) ==
    IF remaining > 0
    THEN LET space_to_end == size - write_pos
             chunk_size == Min(remaining, space_to_end)
             copied == [p \in DOMAIN buffer |->
                          IF p >= write_pos /\ p < write_pos + chunk_size
                          THEN data[(p - write_pos) + 1]
                          ELSE buffer[p]]
         IN WriteLoopNoOffset(copied, (write_pos + chunk_size) % size, size, data,
                              data_len, remaining - chunk_size)
    ELSE [buffer |-> buffer, write_pos |-> write_pos]

\* the copy loop of write (lines 84-99): at most space_to_end items per round
RECURSIVE WriteLoop(_, _, _, _, _, _)
WriteLoop(buffer, write_pos, size, data, data_len, remaining) ==
    IF remaining > 0
    THEN LET space_to_end == size - write_pos
             chunk_size == Min(remaining, space_to_end)
             start_idx == data_len - remaining
             copied == [p \in DOMAIN buffer |->
                          IF p >= write_pos /\ p < write_pos + chunk_size
                          THEN data[start_idx + (p - write_pos) + 1]
                          ELSE buffer[p]]
         IN WriteLoop(copied, (write_pos + chunk_size) % size, size, data, data_len,
                      remaining - chunk_size)
    ELSE [buffer |-> buffer, write_pos |-> write_pos]

\* variant of Write: the data is not cut to the free space (lines 74-78 dropped)
WriteOverrun(b, data, kind) ==
    IF ~KindOK(b.buffer_type, kind)
    THEN [buf |-> b, ret |-> 0, raised |-> TRUE]
    ELSE IF Len(data) = 0
    THEN [buf |-> b, ret |-> 0, raised |-> FALSE]
    ELSE LET data_len == Len(data)
             w == WriteLoop(b.buffer, b.write_pos, b.size, data, data_len, data_len)
         IN [buf |-> [b EXCEPT !.buffer = w.buffer,
                               !.write_pos = w.write_pos,
                               !.available = b.available + data_len],
             ret |-> data_len,
             raised |-> FALSE]

\* variant of Write: data that does not fit as a whole is refused as a whole
WriteWholeOrNothing(b, data, kind) ==
    IF ~KindOK(b.buffer_type, kind)
    THEN [buf |-> b, ret |-> 0, raised |-> TRUE]
    ELSE IF Len(data) = 0 \/ b.size - b.available < Len(data)
    THEN [buf |-> b, ret |-> 0, raised |-> FALSE]
    ELSE LET data_len == Len(data)
             w == WriteLoop(b.buffer, b.write_pos, b.size, data, data_len, data_len)
         IN [buf |-> [b EXCEPT !.buffer = w.buffer,
                               !.write_pos = w.write_pos,
                               !.available = b.available + data_len],
             ret |-> data_len,
             raised |-> FALSE]

\* CircularBuffer.write: the buffer afterwards, the value returned, whether it raised
Write(b, data, kind) ==
    IF ~KindOK(b.buffer_type, kind)
    THEN [buf |-> b, ret |-> 0, raised |-> TRUE]
    ELSE IF Len(data) = 0
    THEN [buf |-> b, ret |-> 0, raised |-> FALSE]
    ELSE LET free_space == b.size - b.available
             data_len == IF free_space < Len(data) THEN free_space ELSE Len(data)
             cut == SubSeq(data, 1, data_len)
         IN IF data_len = 0
            THEN [buf |-> b, ret |-> 0, raised |-> FALSE]
            ELSE LET w == WriteLoop(b.buffer, b.write_pos, b.size, cut, data_len, data_len)
                 IN [buf |-> [b EXCEPT !.buffer = w.buffer,
                                       !.write_pos = w.write_pos,
                                       !.available = b.available + data_len],
                     ret |-> data_len,
                     raised |-> FALSE]

\* the copy loop of read and peek (lines 139-150, 197-206)
RECURSIVE ReadLoop(_, _, _, _, _)
ReadLoop(buffer, read_pos, size, remaining, result) ==
    IF remaining > 0
    THEN LET data_to_end == Min(remaining, size - read_pos)
             slice == [i \in 1..data_to_end |-> buffer[read_pos + i - 1]]
         IN ReadLoop(buffer, (read_pos + data_to_end) % size, size,
                     remaining - data_to_end, result \o slice)
    ELSE [result |-> result, read_pos |-> read_pos]

\* variant of Read: available is decreased by the size asked for (line 124 dropped)
ReadUnclamped(b, size0) ==
    IF b.available = 0
    THEN [buf |-> b, ret |-> <<>>]
    ELSE LET size == Min(size0, b.available)
         IN IF size = 0
            THEN [buf |-> b, ret |-> <<>>]
            ELSE LET r == ReadLoop(b.buffer, b.read_pos, b.size, size, <<>>)
                 IN [buf |-> [b EXCEPT !.read_pos = r.read_pos,
                                       !.available = b.available - size0],
                     ret |-> r.result]

\* CircularBuffer.read(size) with an integer size
Read(b, size0) ==
    IF b.available = 0
    THEN [buf |-> b, ret |-> <<>>]
    ELSE LET size == Min(size0, b.available)
         IN IF size = 0
            THEN [buf |-> b, ret |-> <<>>]
            ELSE LET r == ReadLoop(b.buffer, b.read_pos, b.size, size, <<>>)
                 IN [buf |-> [b EXCEPT !.read_pos = r.read_pos,
                                       !.available = b.available - size],
                     ret |-> r.result]

\* variant of ReadAll: the items come back newest first
ReadAllNewestFirst(b) ==
    LET r == Read(b, b.available)
    IN [buf |-> r.buf, ret |-> [i \in 1..Len(r.ret) |-> r.ret[Len(r.ret) + 1 - i]]]

\* CircularBuffer.read() with size omitted (None): size = self.available
ReadAll(b) == Read(b, b.available)

\* variant of Peek: the copy starts at the beginning of the storage array, not at
\* the read cursor (temp_read_pos = 0 at line 195)
PeekFromStart(b, size0) ==
    IF b.available = 0
    THEN <<>>
    ELSE LET size == Min(size0, b.available)
         IN IF size = 0
            THEN <<>>
            ELSE ReadLoop(b.buffer, 0, b.size, size, <<>>).result

\* CircularBuffer.peek(size) with an integer size
Peek(b, size0) ==
    IF b.available = 0
    THEN <<>>
    ELSE LET size == Min(size0, b.available)
         IN IF size = 0
            THEN <<>>
            ELSE ReadLoop(b.buffer, b.read_pos, b.size, size, <<>>).result

\* CircularBuffer.peek() with size omitted
PeekAll(b) == Peek(b, b.available)

\* variant of Consume: the test against available is dropped (lines 229-230)
ConsumeUnchecked(b, size) ==
    IF size <= 0
    THEN [buf |-> b, ret |-> FALSE]
    ELSE [buf |-> [b EXCEPT !.read_pos = (b.read_pos + size) % b.size,
                            !.available = b.available - size],
          ret |-> TRUE]

\* variant of Consume: available is not decreased (line 234 dropped)
ConsumeKeepsAvailable(b, size) ==
    IF size <= 0
    THEN [buf |-> b, ret |-> FALSE]
    ELSE IF b.available < size
    THEN [buf |-> b, ret |-> FALSE]
    ELSE [buf |-> [b EXCEPT !.read_pos = (b.read_pos + size) % b.size],
          ret |-> TRUE]

\* variant of Consume: the read cursor is not wrapped (the modulo of line 233 dropped)
ConsumeNoWrap(b, size) ==
    IF size <= 0
    THEN [buf |-> b, ret |-> FALSE]
    ELSE IF b.available < size
    THEN [buf |-> b, ret |-> FALSE]
    ELSE [buf |-> [b EXCEPT !.read_pos = b.read_pos + size,
                            !.available = b.available - size],
          ret |-> TRUE]

\* CircularBuffer.consume
Consume(b, size) ==
    IF size <= 0
    THEN [buf |-> b, ret |-> FALSE]
    ELSE IF b.available < size
    THEN [buf |-> b, ret |-> FALSE]
    ELSE [buf |-> [b EXCEPT !.read_pos = (b.read_pos + size) % b.size,
                            !.available = b.available - size],
          ret |-> TRUE]

\* CircularBuffer.get_available / get_free_space
get_available(b) == b.available

get_free_space(b) == b.size - b.available

\* variant of Clear: the write cursor is not reset (line 251 dropped)
ClearKeepsWritePos(b) == [b EXCEPT !.read_pos = 0, !.available = 0]

\* CircularBuffer.clear
Clear(b) == [b EXCEPT !.read_pos = 0, !.write_pos = 0, !.available = 0]

\* CircularBuffer.is_empty / is_full
is_empty(b) == b.available = 0

is_full(b) == b.available = b.size

----------------------------------------------------------------------------
(* SpecBuf: one CircularBuffer and its callers *)

\* the k-th item handed to write: a byte for a byte buffer, an object for a list buffer
Item(buffer_type, k) == IF buffer_type = LIST THEN [v |-> k] ELSE k % 256

KindOf(buffer_type) == IF buffer_type = LIST THEN "list" ELSE "bytes"

\* the stored items, oldest first
Contents(b) == PeekAll(b)

\* the consumer buffers: display_buffer, the buffer of the file writer, and a buffer
\* of bytes registered by mistake
Handles == {"s1", "s2", "s3"}

\* the threads that call the publisher and the consumer buffers: the decode worker,
\* the _write_loop of each of two consumers, and the thread that subscribes and
\* unsubscribes
BusThreads == {"decoder", "reader1", "reader2", "registrar"}

\* a thread that is in no method of the publisher or of a consumer buffer
IdleBusThread ==
    [pc |-> "idle", op |-> "none", h |-> "none", visited |-> {}, size |-> 0,
     success_count |-> 0, registered |-> {}]

\* the threads that call methods of one buffer
Threads == {"t1", "t2"}

\* a thread that is in no method of the buffer
IdleThread ==
    [pc |-> "idle", op |-> "none", data |-> <<>>, data_len |-> 0, remaining |-> 0,
     result |-> <<>>]

\* nobody holds the lock of the buffer (threading.RLock() at line 38), the lock of
\* the publisher or the lock of a consumer buffer, and no thread is in a method
LockIdle ==
    /\ lock = "none"
    /\ thr = [t \in Threads |-> IdleThread]
    /\ pub_lock = "none"
    /\ buf_lock = [h \in Handles |-> "none"]
    /\ bt = [t \in BusThreads |-> IdleBusThread]

\* SimpleUart.__init__ (lines 28-52): no port, empty tx_buffer, no worker started
DrvIdle ==
    /\ is_open = FALSE
    /\ tx_buffer = NewBuffer(TxSize, BYTEARRAY)
    /\ tx_bytes = 0
    /\ rx_pc = "idle"
    /\ rx_data = <<>>
    /\ tx_pc = "idle"
    /\ tx_available = 0
    /\ tx_data = <<>>
    /\ close_pc = "idle"
    /\ send_pc = "idle"
    /\ send_data = <<>>
    /\ send_ret = FALSE
    /\ tx_issued = 0
    /\ tx_accepted = <<>>
    /\ tx_cleared = <<>>
    /\ sent = <<>>
    /\ flushed = 0
    /\ faults = 0

\* the driver after open() has returned True (lines 54-84): the port is open and
\* the three workers stand at the top of their loops
DrvOpen ==
    /\ is_open = TRUE
    /\ tx_buffer = NewBuffer(TxSize, BYTEARRAY)
    /\ tx_bytes = 0
    /\ rx_pc = "loop"
    /\ rx_data = <<>>
    /\ tx_pc = "loop"
    /\ tx_available = 0
    /\ tx_data = <<>>
    /\ close_pc = "idle"
    /\ send_pc = "idle"
    /\ send_data = <<>>
    /\ send_ret = FALSE
    /\ tx_issued = 0
    /\ tx_accepted = <<>>
    /\ tx_cleared = <<>>
    /\ sent = <<>>
    /\ flushed = 0
    /\ faults = 0

\* SimpleUart.__init__ and the module state of data_frame.py, before open()
DecIdle ==
    /\ running = FALSE
    /\ wire = <<>>
    /\ in_waiting = <<>>
    /\ segs = <<>>
    /\ rx_buffer = NewBuffer(RxSize, BYTEARRAY)
    /\ rx_bytes = 0
    /\ errors = 0
    /\ error_log = <<>>
    /\ frame_state = 0
    /\ pc = "idle"
    /\ cmd_id = 0
    /\ length = 0
    /\ subscribers = {}
    /\ bufs = <<>>
    /\ fed = <<>>
    /\ seen = <<>>
    /\ steals = 0
    /\ published = <<>>
    /\ bodies = <<>>
    /\ callback_log = <<>>
    /\ cmd_log = <<>>
    /\ attempts = <<>>
    /\ due = <<>>
    /\ got = <<>>

InitBuf ==
    /\ \E size \in 1..MaxCap, buffer_type \in {BYTEARRAY, LIST} :
          cb = NewBuffer(size, buffer_type)
    /\ last_op = "init"
    /\ last_arg = 0
    /\ last_ret = 0
    /\ accepted = <<>>
    /\ removed = 0
    /\ issued = 0
    /\ DecIdle
    /\ LockIdle
    /\ DrvIdle

\* buffer.write(data) with the next n items
BufWrite(n) ==
    /\ issued + n <= MaxItems
    /\ LET data == [i \in 1..n |-> Item(cb.buffer_type, issued + i)]
           w == Write(cb, data, KindOf(cb.buffer_type))
       IN /\ cb' = w.buf
          /\ last_op' = "write"
          /\ last_arg' = n
          /\ last_ret' = w.ret
          /\ accepted' = accepted \o SubSeq(data, 1, w.ret)
          /\ issued' = issued + n
    /\ UNCHANGED <<removed, decVars, lockVars, busVars, drvVars>>

\* buffer.read(size)
BufRead(size) ==
    /\ LET r == Read(cb, size)
       IN /\ cb' = r.buf
          /\ last_ret' = r.ret
          /\ removed' = removed + Len(r.ret)
    /\ last_op' = "read"
    /\ last_arg' = size
    /\ UNCHANGED <<accepted, issued, decVars, lockVars, busVars, drvVars>>

\* buffer.read()
BufReadAll ==
    /\ LET r == ReadAll(cb)
       IN /\ cb' = r.buf
          /\ last_ret' = r.ret
          /\ removed' = removed + Len(r.ret)
    /\ last_op' = "read_all"
    /\ last_arg' = cb.available
    /\ UNCHANGED <<accepted, issued, decVars, lockVars, busVars, drvVars>>

\* buffer.peek(size)
BufPeek(size) ==
    /\ last_ret' = Peek(cb, size)
    /\ last_op' = "peek"
    /\ last_arg' = size
    /\ UNCHANGED <<cb, accepted, removed, issued, decVars, lockVars, busVars, drvVars>>

\* buffer.peek()
BufPeekAll ==
    /\ last_ret' = PeekAll(cb)
    /\ last_op' = "peek_all"
    /\ last_arg' = cb.available
    /\ UNCHANGED <<cb, accepted, removed, issued, decVars, lockVars, busVars, drvVars>>

\* buffer.consume(size)
BufConsume(size) ==
    /\ LET c == Consume(cb, size)
       IN /\ cb' = c.buf
          /\ last_ret' = c.ret
          /\ removed' = IF c.ret THEN removed + size ELSE removed
    /\ last_op' = "consume"
    /\ last_arg' = size
    /\ UNCHANGED <<accepted, issued, decVars, lockVars, busVars, drvVars>>

\* buffer.clear()
BufClear ==
    /\ cb' = Clear(cb)
    /\ last_op' = "clear"
    /\ last_arg' = 0
    /\ last_ret' = 0
    /\ removed' = removed + cb.available
    /\ UNCHANGED <<accepted, issued, decVars, lockVars, busVars, drvVars>>

\* calls with well-formed arguments
NextBuf ==
    \/ \E n \in 0..MaxWrite : BufWrite(n)
    \/ \E size \in 0..MaxSize : BufRead(size)
    \/ BufReadAll
    \/ \E size \in 0..MaxSize : BufPeek(size)
    \/ BufPeekAll
    \/ \E size \in (-1)..MaxSize : BufConsume(size)
    \/ BufClear

SpecBuf == InitBuf /\ [][NextBuf]_vars

\* buffer.read(size) with a negative size, on a buffer that holds exactly the
\* accepted items not yet taken out: no check at the call boundary (lines 121-152)
BufReadNeg(size) ==
    /\ size < 0
    /\ cb.available = Len(accepted) - removed
    /\ BufRead(size)

\* buffer.peek(size) with a negative size: no check at the call boundary (lines 178-206)
BufPeekNeg(size) == size < 0 /\ BufPeek(size)

\* buffer.write(data) with data of the other kind (a list for a byte buffer, bytes
\* for a list buffer): TypeError (lines 61-68)
BufWriteWrongKind(n) ==
    /\ LET other == IF cb.buffer_type = LIST THEN BYTEARRAY ELSE LIST
           data == [i \in 1..n |-> Item(other, i)]
           w == Write(cb, data, KindOf(other))
       IN /\ cb' = w.buf
          /\ last_op' = IF w.raised THEN "write_raised" ELSE "write"
          /\ last_ret' = w.ret
    /\ last_arg' = n
    /\ UNCHANGED <<accepted, removed, issued, decVars, lockVars, busVars, drvVars>>

\* calls with any integer size and any kind of data
NextBufAny ==
    \/ NextBuf
    \/ \E size \in (-MaxNeg)..(-1) : BufReadNeg(size)
    \/ \E size \in (-MaxNeg)..(-1) : BufPeekNeg(size)
    \/ \E n \in 0..1 : BufWriteWrongKind(n)

SpecBufAny == InitBuf /\ [][NextBufAny]_vars

----------------------------------------------------------------------------
(* Properties of the CircularBuffer (SpecBuf) *)

WriteContract ==
    [][\A n \in 0..MaxWrite :
          BufWrite(n) =>
             LET f == cb.size - cb.available
                 k == Min(n, f)
                 data == [i \in 1..n |-> Item(cb.buffer_type, issued + i)]
             IN /\ last_ret' = k
                /\ cb'.available = cb.available + k
                /\ Contents(cb') = Contents(cb) \o SubSeq(data, 1, k)
                /\ cb'.size = cb.size
                /\ cb'.read_pos = cb.read_pos
                /\ (f = 0 => last_ret' = 0 /\ cb' = cb)]_vars

\* C10 witness: a write that was cut to the free space and wrapped around the end
\* of the storage array.
WriteWitness ==
    /\ last_op = "write"
    /\ last_ret > 0
    /\ last_ret < last_arg
    /\ cb.write_pos > 0
    /\ cb.write_pos < last_ret

\* C11: read(n) removes and returns the oldest min(n, available) items in order,
\* all of them when n is omitted, and nothing on an empty buffer; the read cursor
\* advances and available decreases by the number of items returned.
ReadContract ==
    [][/\ \A size \in 0..MaxSize :
             (last_op' = "read" /\ BufRead(size)) =>
                LET k == Min(size, cb.available)
                IN /\ last_ret' = SubSeq(accepted, removed + 1, removed + k)
                   /\ Contents(cb') = SubSeq(accepted, removed + k + 1, Len(accepted))
                   /\ cb'.read_pos = (cb.read_pos + k) % cb.size
                   /\ cb'.available = cb.available - k
                   /\ cb'.write_pos = cb.write_pos
                   /\ (cb.available = 0 => last_ret' = <<>> /\ cb' = cb)
       /\ (last_op' = "read_all" /\ BufReadAll) =>
             /\ last_ret' = SubSeq(accepted, removed + 1, Len(accepted))
             /\ Len(last_ret') = cb.available
             /\ cb'.read_pos = (cb.read_pos + cb.available) % cb.size
             /\ cb'.available = 0
             /\ cb'.write_pos = cb.write_pos]_vars

\* C11 witness: a read that asked for more than was stored returned what there
\* was, from a stored range that crossed the end of the storage array.
ReadWitness ==
    /\ last_op = "read"
    /\ last_arg > Len(last_ret)
    /\ Len(last_ret) >= 2
    /\ cb.read_pos > 0
    /\ cb.read_pos < Len(last_ret)
    /\ cb.available = 0

\* C12 as stated: a read or peek with a negative size and a write of the wrong
\* kind of data end in an error and leave cursors, available and contents as they
\* were.
MalformedRejected ==
    [][/\ \A size \in (-MaxNeg)..(-1) :
             (last_op' \in {"read", "read_raised"} /\ last_arg' = size) =>
                 /\ last_op' = "read_raised"
                 /\ cb' = cb
       /\ \A size \in (-MaxNeg)..(-1) :
             (last_op' \in {"peek", "peek_raised"} /\ last_arg' = size) =>
                 /\ last_op' = "peek_raised"
                 /\ cb' = cb
       /\ \A n \in 0..1 :
             (last_op' \in {"write", "write_raised"} /\ BufWriteWrongKind(n)) =>
                 /\ last_op' = "write_raised"
                 /\ cb' = cb]_vars

\* C12: what read with a negative size does to a buffer holding items: it returns
\* nothing, reports no error and leaves available above the capacity.
NegativeReadState ==
    /\ last_op = "read"
    /\ last_arg < 0
    /\ last_ret = <<>>
    /\ cb.available > cb.size
    /\ get_free_space(cb) < 0

\* C13: consume(n) with 0 < n <= available returns True, advances the read cursor
\* by n modulo the capacity and decreases available by n; any other n returns
\* False and leaves read cursor, write cursor and available as they were.
ConsumeContract ==
    [][\A size \in (-1)..MaxSize :
          (last_op' = "consume" /\ BufConsume(size)) =>
             IF 0 < size /\ size <= cb.available
             THEN /\ last_ret' = TRUE
                  /\ cb'.read_pos = (cb.read_pos + size) % cb.size
                  /\ cb'.available = cb.available - size
                  /\ cb'.write_pos = cb.write_pos
                  /\ Contents(cb') = SubSeq(Contents(cb), size + 1, cb.available)
             ELSE /\ last_ret' = FALSE
                  /\ cb' = cb]_vars

\* C13 witness: a consume of several items succeeded and took the read cursor
\* around the end of the storage array.
ConsumeWitness ==
    /\ last_op = "consume"
    /\ last_ret = TRUE
    /\ last_arg >= 2
    /\ cb.read_pos < last_arg
    /\ cb.read_pos > 0

\* C14 as stated: for any n, consume(n) followed by a read leaves and yields what
\* read(n), its result discarded, followed by a read leaves and yields.
ConsumeReadAnySize ==
    [][\A size \in 0..MaxSize :
          (last_op' = "consume" /\ BufConsume(size)) =>
             /\ ReadAll(cb').ret = ReadAll(Read(cb, size).buf).ret
             /\ ReadAll(cb').buf = ReadAll(Read(cb, size).buf).buf]_vars

\* C14: for 0 <= n <= available, consume(n) leaves the buffer in the state
\* read(n) leaves it in, so a read after either yields the same items and leaves
\* the same buffer.
ConsumeReadEquivalence ==
    [][\A size \in 0..MaxSize :
          (last_op' = "consume" /\ BufConsume(size) /\ size <= cb.available) =>
             /\ cb' = Read(cb, size).buf
             /\ ReadAll(cb').ret = ReadAll(Read(cb, size).buf).ret
             /\ ReadAll(cb').buf = ReadAll(Read(cb, size).buf).buf
             /\ ReadAll(cb').ret = SubSeq(accepted, removed + size + 1, Len(accepted))]_vars

\* C14 witness: a consume succeeded and what it left behind is stored across the
\* end of the storage array.
ConsumeReadWitness ==
    /\ last_op = "consume"
    /\ last_ret = TRUE
    /\ cb.available >= 2
    /\ cb.read_pos + cb.available > cb.size

\* C15: peek(n) returns the items read(n) would return and leaves read cursor,
\* write cursor, available and contents as they were; a second peek(n) right after
\* the first returns the same items.
PeekIdempotence ==
    [][/\ \A size \in 0..MaxSize :
             (last_op' = "peek" /\ BufPeek(size)) =>
                /\ last_ret' = Read(cb, size).ret
                /\ last_ret' = SubSeq(accepted, removed + 1,
                                      removed + Min(size, cb.available))
                /\ cb' = cb
                /\ (last_op = "peek" /\ last_arg = size) => last_ret' = last_ret
       /\ (last_op' = "peek_all" /\ BufPeekAll) =>
             /\ last_ret' = ReadAll(cb).ret
             /\ cb' = cb
             /\ last_op = "peek_all" => last_ret' = last_ret]_vars

\* C15 witness: a peek of several items that are stored across the end of the
\* storage array, after which all of them are still in the buffer.
PeekWitness ==
    /\ last_op = "peek"
    /\ Len(last_ret) >= 2
    /\ cb.read_pos + Len(last_ret) > cb.size
    /\ cb.available >= Len(last_ret)
    /\ last_ret = SubSeq(Contents(cb), 1, Len(last_ret))

----------------------------------------------------------------------------
(* Wire format: UartSrc/simple_uart.py, _parse_worker and _parse_data_frame *)

DATA_LEAD1 == 169  \* 0xA9
DATA_LEAD2 == 181  \* 0xB5
CMD_LEAD1 == 5     \* 0x05
CMD_LEAD2 == 28    \* 0x1C
TAIL == 51         \* 0x33
BODY_LEN == 38     \* bytes of a data frame after the two lead bytes

\* sum(...) of a byte sequence, computed by halves
RECURSIVE SumSeq(_)
SumSeq(q) ==
    IF q = <<>> THEN 0
    ELSE IF Len(q) = 1 THEN q[1]
    ELSE LET m == Len(q) \div 2
         IN SumSeq(SubSeq(q, 1, m)) + SumSeq(SubSeq(q, m + 1, Len(q)))

\* int.from_bytes(two bytes, byteorder='little', signed=True)
Int16LE(lo, hi) ==
    LET u == lo + 256 * hi
    IN IF u >= 32768 THEN u - 65536 ELSE u

\* int.from_bytes(two bytes, byteorder='little')
UInt16LE(lo, hi) == lo + 256 * hi

\* variant of DecodeFrame: the four ADC slots go to channels 0, 1, 2, 3 in array order
DecodeFrameArrayOrder(frame_data) ==
    LET B(i) == frame_data[i + 1]
        S(i) == Int16LE(B(i), B(i + 1))
        adc == [c \in 0..3 |-> S(2 * c)]
        sdadc0 == [c \in 0..3 |-> IF c = 0 THEN S(8) ELSE IF c = 1 THEN S(10)
                                  ELSE IF c = 2 THEN S(12) ELSE S(18)]
        sdadc1 == [c \in 0..3 |-> IF c = 0 THEN S(14) ELSE IF c = 1 THEN S(16)
                                  ELSE IF c = 2 THEN S(20) ELSE S(22)]
        adj_base_offset == 24
    IN [frame_header |-> <<DATA_LEAD1, DATA_LEAD2>>,
        channels |-> [c \in 0..3 |->
                        [adc |-> adc[c],
                         sdadc0 |-> sdadc0[c],
                         sdadc1 |-> sdadc1[c],
                         adj0 |-> B(adj_base_offset + c),
                         adj1 |-> B(adj_base_offset + 4 + c),
                         current |-> [scaled |-> sdadc0[c] + 32767,
                                      divisor |-> 256 - B(adj_base_offset + c)]]],
        master_frame |-> UInt16LE(B(32), B(33)),
        slave_frame |-> UInt16LE(B(34), B(35)),
        lidar_state |-> B(36),
        frame_tail |-> <<TAIL>>]

\* the DataFrame built by _parse_data_frame from a 38-byte body (lines 270-310);
\* current stands for 1000 * scaled * 3300 / 65535 / (divisor * 3.92)
DecodeFrame(frame_data) ==
    LET B(i) == frame_data[i + 1]
        S(i) == Int16LE(B(i), B(i + 1))
        adc == [c \in 0..3 |-> IF c = 1 THEN S(0) ELSE IF c = 0 THEN S(2)
                               ELSE IF c = 2 THEN S(4) ELSE S(6)]
        sdadc0 == [c \in 0..3 |-> IF c = 0 THEN S(8) ELSE IF c = 1 THEN S(10)
                                  ELSE IF c = 2 THEN S(12) ELSE S(18)]
        sdadc1 == [c \in 0..3 |-> IF c = 0 THEN S(14) ELSE IF c = 1 THEN S(16)
                                  ELSE IF c = 2 THEN S(20) ELSE S(22)]
        adj_base_offset == 24
    IN [frame_header |-> <<DATA_LEAD1, DATA_LEAD2>>,
        channels |-> [c \in 0..3 |->
                        [adc |-> adc[c],
                         sdadc0 |-> sdadc0[c],
                         sdadc1 |-> sdadc1[c],
                         adj0 |-> B(adj_base_offset + c),
                         adj1 |-> B(adj_base_offset + 4 + c),
                         current |-> [scaled |-> sdadc0[c] + 32767,
                                      divisor |-> 256 - B(adj_base_offset + c)]]],
        master_frame |-> UInt16LE(B(32), B(33)),
        slave_frame |-> UInt16LE(B(34), B(35)),
        lidar_state |-> B(36),
        frame_tail |-> <<TAIL>>]

\* variant of ParseDataFrame: the fields are taken from the end of the body
\* (negative indices), so that a short body ending in 0x33 is decoded
ParseDataFrameFromEnd(frame_data) ==
    IF Len(frame_data) = 0
    THEN [outcome |-> "raised", frame |-> None]
    ELSE LET missing == BODY_LEN - Len(frame_data)
             padded == [i \in 1..BODY_LEN |->
                          IF i <= missing THEN 0 ELSE frame_data[i - missing]]
         IN IF padded[BODY_LEN] # TAIL
            THEN [outcome |-> "bad_tail", frame |-> None]
            ELSE [outcome |-> "publish", frame |-> DecodeFrame(padded)]

\* variant of ParseDataFrame: a short body raises nothing (slices in place of indices)
ParseDataFrameNoRaise(frame_data) ==
    IF Len(frame_data) = 0
    THEN [outcome |-> "raised", frame |-> None]
    ELSE LET padded == [i \in 1..BODY_LEN |->
                          IF i <= Len(frame_data) THEN frame_data[i] ELSE 0]
         IN [outcome |-> "publish", frame |-> DecodeFrame(padded)]

\* variant of ParseDataFrame: the divisor of the current is (255 - adj0) * 3.92,
\* which is zero for adj0 = 255
ParseDataFrameDivisor255(frame_data) ==
    IF Len(frame_data) < BODY_LEN
    THEN [outcome |-> "raised", frame |-> None]
    ELSE LET f == DecodeFrame(frame_data)
         IN IF \E c \in 0..3 : 255 - f.channels[c].adj0 = 0
            THEN [outcome |-> "raised", frame |-> None]
            ELSE IF frame_data[BODY_LEN] # TAIL
            THEN [outcome |-> "bad_tail", frame |-> None]
            ELSE [outcome |-> "publish", frame |-> f]

\* _parse_data_frame up to the publication: an index past the end of a short body
\* raises IndexError (lines 294, 297, 310, 313) and a zero divisor ZeroDivisionError
\* (line 301), both caught at line 326; a wrong tail returns at line 315
ParseDataFrame(frame_data) ==
    IF Len(frame_data) < BODY_LEN
    THEN [outcome |-> "raised", frame |-> None]
    ELSE LET f == DecodeFrame(frame_data)
         IN IF \E c \in 0..3 : f.channels[c].current.divisor = 0
            THEN [outcome |-> "raised", frame |-> None]
            ELSE IF frame_data[BODY_LEN] # TAIL
            THEN [outcome |-> "bad_tail", frame |-> None]
            ELSE [outcome |-> "publish", frame |-> f]

\* variant of TailOK: the first byte of the body is tested
TailOKFirst(remaining_data) == remaining_data[1] = TAIL

\* the tail test of _parse_worker (line 370): remaining_data[-1] == 0x33
TailOK(remaining_data) == remaining_data[Len(remaining_data)] = TAIL

\* variant of CalcChecksum: the first payload byte is left out of the sum
CalcChecksumSkipFirst(id, len, content) ==
    SumSeq(<<CMD_LEAD1, CMD_LEAD2, id, len>> \o Tail(content)) % 256

\* the checksum of _parse_worker (line 407)
CalcChecksum(id, len, content) ==
    SumSeq(<<CMD_LEAD1, CMD_LEAD2, id, len>> \o content) % 256

----------------------------------------------------------------------------
(* DataStructures/data_frame.py: DataFramePublisher *)

\* variant of Publish: nothing is delivered when some buffer takes nothing
PublishAllOrNothing(bs, subs, frame) ==
    LET w(h) == Write(bs[h], <<frame>>, "list")
        blocked == \E h \in subs : w(h).raised \/ w(h).ret = 0
    IN [bufs |-> [h \in DOMAIN bs |->
                    IF h \in subs /\ ~blocked THEN w(h).buf ELSE bs[h]],
        count |-> IF blocked THEN 0 ELSE Cardinality(subs)]

\* variant of Publish: every registered buffer is counted, whether or not it took
\* the frame (the test of line 135 dropped)
PublishCountsAttempts(bs, subs, frame) ==
    LET w(h) == Write(bs[h], <<frame>>, "list")
    IN [bufs |-> [h \in DOMAIN bs |->
                    IF h \in subs /\ ~w(h).raised THEN w(h).buf ELSE bs[h]],
        count |-> Cardinality(subs)]

\* variant of Publish: a full buffer gives up its oldest frame to take the new one
PublishEvictsOldest(bs, subs, frame) ==
    LET room(h) == IF is_full(bs[h]) THEN Read(bs[h], 1).buf ELSE bs[h]
        w(h) == Write(room(h), <<frame>>, "list")
    IN [bufs |-> [h \in DOMAIN bs |->
                    IF h \in subs /\ ~w(h).raised THEN w(h).buf ELSE bs[h]],
        count |-> Cardinality({h \in subs : ~w(h).raised /\ w(h).ret > 0})]

\* DataFramePublisher.publish: the buffers afterwards and success_count
Publish(bs, subs, frame) ==
    LET w(h) == Write(bs[h], <<frame>>, "list")
    IN [bufs |-> [h \in DOMAIN bs |->
                    IF h \in subs /\ ~w(h).raised THEN w(h).buf ELSE bs[h]],
        count |-> Cardinality({h \in subs : ~w(h).raised /\ w(h).ret > 0})]

----------------------------------------------------------------------------
(* The remote device and the serial port *)

\* body of the k-th segment when it is a data frame, with the given tail byte
DataBody(k, tail) ==
    [i \in 1..BODY_LEN |-> IF i = BODY_LEN THEN tail ELSE (i * 7 + k) % 256]

\* checksum as the device computes it: sum of all preceding bytes modulo 256
WireChecksum(bytes) == SumSeq(bytes) % 256

\* command frame 05 1C cmd_id length payload, without its checksum byte
CmdHead(k) == <<CMD_LEAD1, CMD_LEAD2, 16 + k, 2, 1, 2>>

SegKinds == {"data", "badtail", "cmd", "badcmd", "junk"}

JunkBytes == {0, DATA_LEAD1, CMD_LEAD1}

\* the bytes of a segment
SegBytes(seg) ==
    CASE seg.kind = "data" -> <<DATA_LEAD1, DATA_LEAD2>> \o DataBody(seg.k, TAIL)
      [] seg.kind = "badtail" -> <<DATA_LEAD1, DATA_LEAD2>> \o DataBody(seg.k, 0)
      [] seg.kind = "cmd" -> Append(CmdHead(seg.k), WireChecksum(CmdHead(seg.k)))
      [] seg.kind = "badcmd" ->
            Append(CmdHead(seg.k), (WireChecksum(CmdHead(seg.k)) + 255) % 256)
      [] OTHER -> <<seg.k>>

\* the bytes of a sequence of segments
RECURSIVE StreamOf(_)
StreamOf(ss) == IF ss = <<>> THEN <<>> ELSE SegBytes(Head(ss)) \o StreamOf(Tail(ss))

\* the device sends its next segment once the port has been emptied and the decode
\* worker is at most MaxLag bytes behind: the segment reaches the port whole, or its
\* first Chunk bytes ahead of the rest
DeviceSend(kind, junk, split) ==
    /\ wire = <<>>
    /\ in_waiting = <<>>
    /\ get_available(rx_buffer) <= MaxLag
    /\ Len(segs) < MaxSegs
    /\ LET seg == [kind |-> kind, k |-> IF kind = "junk" THEN junk ELSE Len(segs) + 1]
           bytes == SegBytes(seg)
           n == IF split THEN Min(Chunk, Len(bytes)) ELSE Len(bytes)
       IN /\ segs' = Append(segs, seg)
          /\ in_waiting' = SubSeq(bytes, 1, n)
          /\ wire' = SubSeq(bytes, n + 1, Len(bytes))
    /\ UNCHANGED <<drvVars, lockVars, busVars, bufVars, running, rx_buffer, rx_bytes, errors, error_log,
                   frame_state, pc, cmd_id, length, subscribers, bufs, fed, seen,
                   steals, published, bodies, callback_log, cmd_log, attempts, due, got>>

\* the rest of a split segment reaches the port
Arrive ==
    /\ wire # <<>>
    /\ in_waiting' = in_waiting \o wire
    /\ wire' = <<>>
    /\ UNCHANGED <<drvVars, lockVars, busVars, bufVars, running, segs, rx_buffer, rx_bytes, errors, error_log,
                   frame_state, pc, cmd_id, length, subscribers, bufs, fed, seen,
                   steals, published, bodies, callback_log, cmd_log, attempts, due, got>>

----------------------------------------------------------------------------
(* UartSrc/simple_uart.py: the workers *)

\* variant of HandleError: the failure is swallowed, nothing is counted or reported
HandleErrorSilent(msg) ==
    /\ errors' = errors
    /\ error_log' = error_log

\* _handle_error: the counter and the error callback (lines 434-443)
HandleError(msg) ==
    /\ errors' = errors + 1
    /\ error_log' = Append(error_log, msg)

\* one round of _rx_worker with bytes waiting (lines 211-220)
RxStep ==
    /\ running
    /\ Len(in_waiting) > 0
    /\ \E data \in {in_waiting} : \E w \in {Write(rx_buffer, data, "bytes")} :
          /\ rx_buffer' = w.buf
          /\ rx_bytes' = rx_bytes + w.ret
          /\ fed' = fed \o SubSeq(data, 1, w.ret)
    /\ in_waiting' = <<>>
    /\ UNCHANGED <<drvVars, lockVars, busVars, bufVars, running, wire, segs, errors, error_log,
                   frame_state, pc, cmd_id, length, subscribers, bufs, seen,
                   steals, published, bodies, callback_log, cmd_log, attempts, due, got>>

\* variant of ScanStep: a repeated 0xA9 in frame_state 1 falls back to frame_state 0
\* (lines 375-377 dropped)
ScanStepNoResync(fs, current_byte) ==
    CASE fs = 0 ->
            [frame_state |-> IF current_byte = DATA_LEAD1 THEN 1
                             ELSE IF current_byte = CMD_LEAD1 THEN 2 ELSE 0,
             pc |-> "loop"]
      [] fs = 1 ->
            IF current_byte = DATA_LEAD2
            THEN [frame_state |-> 1, pc |-> "wait38"]
            ELSE [frame_state |-> IF current_byte = CMD_LEAD1 THEN 2 ELSE 0,
                  pc |-> "loop"]
      [] OTHER ->
            IF current_byte = CMD_LEAD2
            THEN [frame_state |-> 2, pc |-> "wait_hdr"]
            ELSE [frame_state |-> IF current_byte = CMD_LEAD1 THEN 2
                                  ELSE IF current_byte = DATA_LEAD1 THEN 1 ELSE 0,
                  pc |-> "loop"]

\* variant of ScanStep: in frame_state 2 the byte 0x05 switches to frame_state 1 and
\* 0xA9 falls back to frame_state 0
ScanStepCmdSwapped(fs, current_byte) ==
    CASE fs = 0 ->
            [frame_state |-> IF current_byte = DATA_LEAD1 THEN 1
                             ELSE IF current_byte = CMD_LEAD1 THEN 2 ELSE 0,
             pc |-> "loop"]
      [] fs = 1 ->
            IF current_byte = DATA_LEAD2
            THEN [frame_state |-> 1, pc |-> "wait38"]
            ELSE [frame_state |-> IF current_byte = DATA_LEAD1 THEN 1
                                  ELSE IF current_byte = CMD_LEAD1 THEN 2 ELSE 0,
                  pc |-> "loop"]
      [] OTHER ->
            IF current_byte = CMD_LEAD2
            THEN [frame_state |-> 2, pc |-> "wait_hdr"]
            ELSE [frame_state |-> IF current_byte = CMD_LEAD1 THEN 1 ELSE 0,
                  pc |-> "loop"]

\* the match statement of _parse_worker for one byte (lines 354-427): the new
\* frame_state and where the worker goes next
ScanStep(fs, current_byte) ==
    CASE fs = 0 ->
            [frame_state |-> IF current_byte = DATA_LEAD1 THEN 1
                             ELSE IF current_byte = CMD_LEAD1 THEN 2 ELSE 0,
             pc |-> "loop"]
      [] fs = 1 ->
            IF current_byte = DATA_LEAD2
            THEN [frame_state |-> 1, pc |-> "wait38"]
            ELSE [frame_state |-> IF current_byte = DATA_LEAD1 THEN 1
                                  ELSE IF current_byte = CMD_LEAD1 THEN 2 ELSE 0,
                  pc |-> "loop"]
      [] OTHER ->
            IF current_byte = CMD_LEAD2
            THEN [frame_state |-> 2, pc |-> "wait_hdr"]
            ELSE [frame_state |-> IF current_byte = CMD_LEAD1 THEN 2
                                  ELSE IF current_byte = DATA_LEAD1 THEN 1 ELSE 0,
                  pc |-> "loop"]

\* variant of BodyRead: one byte less is read
BodyReadShort(b) == Read(b, BODY_LEN - 1)

\* remaining_data = self.rx_buffer.read(38) (line 368)
BodyRead(b) == Read(b, BODY_LEN)

\* lines 368-374 and _parse_data_frame on the bytes read(38) returned: what happens
BodyOutcome(remaining_data) ==
    IF remaining_data = <<>>
    THEN [outcome |-> "index_error", frame |-> None]
    ELSE IF TailOK(remaining_data)
    THEN ParseDataFrame(remaining_data)
    ELSE [outcome |-> "tail_mismatch", frame |-> None]

\* while self.running (line 344)
ParseLoop ==
    /\ pc = "loop"
    /\ pc' = IF running THEN "read1" ELSE "done"
    /\ UNCHANGED <<drvVars, lockVars, busVars, bufVars, running, wire, in_waiting, segs, rx_buffer, rx_bytes, errors,
                   error_log, frame_state, cmd_id, length, subscribers, bufs, fed, seen,
                   steals, published, bodies, callback_log, cmd_log, attempts, due, got>>

\* byte_data = self.rx_buffer.read(1) and the match on frame_state (lines 347-427)
ParseByte ==
    /\ pc = "read1"
    /\ LET r == Read(rx_buffer, 1)
       IN /\ rx_buffer' = r.buf
          /\ IF r.ret = <<>>
             THEN /\ pc' = "loop"
                  /\ UNCHANGED <<frame_state, seen>>
             ELSE LET current_byte == r.ret[1]
                      n == ScanStep(frame_state, current_byte)
                  IN /\ frame_state' = n.frame_state
                     /\ pc' = n.pc
                     /\ seen' = IF seen = <<>> THEN <<current_byte>>
                                ELSE <<seen[Len(seen)], current_byte>>
    /\ UNCHANGED <<drvVars, lockVars, busVars, bufVars, running, wire, in_waiting, segs, rx_bytes, errors,
                   error_log, cmd_id, length, subscribers, bufs, fed,
                   steals, published, bodies, callback_log, cmd_log, attempts, due, got>>

\* one round of the loop taken in one step: line 344 with running set, then
\* lines 347-427 (no other thread writes running while the driver stays open)
ParseRound ==
    /\ pc = "loop"
    /\ running
    /\ \E r \in {Read(rx_buffer, 1)} :
          /\ r.ret # <<>>
          /\ rx_buffer' = r.buf
          /\ LET current_byte == r.ret[1]
                 n == ScanStep(frame_state, current_byte)
             IN /\ frame_state' = n.frame_state
                /\ pc' = n.pc
                /\ seen' = IF seen = <<>> THEN <<current_byte>>
                           ELSE <<seen[Len(seen)], current_byte>>
    /\ UNCHANGED <<drvVars, lockVars, busVars, bufVars, running, wire, in_waiting, segs, rx_bytes, errors,
                   error_log, cmd_id, length, subscribers, bufs, fed,
                   steals, published, bodies, callback_log, cmd_log, attempts, due, got>>

\* variant of ParseWaitBody: the wait is left only when the bytes are there (the
\* test of self.running at line 364 dropped)
ParseWaitBodyForever ==
    /\ pc = "wait38"
    /\ get_available(rx_buffer) >= BODY_LEN
    /\ pc' = "read38"
    /\ UNCHANGED <<bufVars, lockVars, busVars, running, wire, in_waiting, segs, rx_buffer, rx_bytes,
                   errors, error_log, frame_state, cmd_id, length, subscribers, bufs, fed,
                   seen, steals, published, bodies, callback_log, cmd_log, attempts, due, got,
                   drvVars>>

\* variant of ParseWaitBody: the wait is left at once, whether or not the bytes are
\* there (the test of get_available() at line 364 dropped)
ParseWaitBodyEager ==
    /\ pc = "wait38"
    /\ pc' = "read38"
    /\ UNCHANGED <<bufVars, lockVars, busVars, running, wire, in_waiting, segs, rx_buffer, rx_bytes,
                   errors, error_log, frame_state, cmd_id, length, subscribers, bufs, fed,
                   seen, steals, published, bodies, callback_log, cmd_log, attempts, due, got,
                   drvVars>>

\* while self.running and get_available() < 38 (lines 364-365): the loop is left
ParseWaitBody ==
    /\ pc = "wait38"
    /\ ~running \/ get_available(rx_buffer) >= BODY_LEN
    /\ pc' = "read38"
    /\ UNCHANGED <<drvVars, lockVars, busVars, bufVars, running, wire, in_waiting, segs, rx_buffer, rx_bytes, errors,
                   error_log, frame_state, cmd_id, length, subscribers, bufs, fed, seen,
                   steals, published, bodies, callback_log, cmd_log, attempts, due, got>>

\* remaining_data = read(38), the tail test and _parse_data_frame (lines 368-374,
\* 257-327); an exception leaves frame_state as it is (lines 429-431)
ParseReadBody ==
    /\ pc = "read38"
    /\ \E r \in {BodyRead(rx_buffer)} : \E o \in {BodyOutcome(r.ret)} :
          LET pub == Publish(bufs, subscribers, o.frame)
          IN
          /\ rx_buffer' = r.buf
          /\ IF o.outcome = "publish"
             THEN /\ bufs' = pub.bufs
                  /\ published' = Append(published, o.frame)
                  /\ bodies' = Append(bodies, [lead |-> seen, body |-> r.ret,
                                               attempt |-> Len(attempts) + 1])
                  /\ callback_log' = Append(callback_log, o.frame)
                  /\ due' = [h \in DOMAIN due |->
                               IF h \in subscribers THEN Append(due[h], o.frame)
                               ELSE due[h]]
             ELSE UNCHANGED <<bufs, published, bodies, callback_log, due>>
          /\ IF o.outcome = "index_error"
             THEN HandleError("parse_worker")
             ELSE IF o.outcome = "raised"
             THEN HandleError("parse_data_frame")
             ELSE IF o.outcome = "bad_tail"
             THEN HandleError("frame_tail")
             ELSE UNCHANGED <<errors, error_log>>
          /\ frame_state' = IF o.outcome = "index_error" THEN frame_state ELSE 0
          /\ attempts' = Append(attempts, [kind |-> "data", outcome |-> o.outcome])
    /\ pc' = "loop"
    /\ UNCHANGED <<drvVars, lockVars, busVars, bufVars, running, wire, in_waiting, segs, rx_bytes,
                   cmd_id, length, subscribers, fed, seen,
                   steals, cmd_log, got>>

\* while self.running and get_available() < 2 (lines 386-387): the loop is left
ParseWaitHeader ==
    /\ pc = "wait_hdr"
    /\ ~running \/ get_available(rx_buffer) >= 2
    /\ pc' = "check_hdr"
    /\ UNCHANGED <<drvVars, lockVars, busVars, bufVars, running, wire, in_waiting, segs, rx_buffer, rx_bytes, errors,
                   error_log, frame_state, cmd_id, length, subscribers, bufs, fed, seen,
                   steals, published, bodies, callback_log, cmd_log, attempts, due, got>>

\* if get_available() >= 2 (line 389), else lines 418-420
ParseCheckHeader ==
    /\ pc = "check_hdr"
    /\ IF get_available(rx_buffer) >= 2
       THEN /\ pc' = "read_hdr"
            /\ UNCHANGED <<frame_state, attempts>>
       ELSE /\ pc' = "loop"
            /\ frame_state' = 0
            /\ attempts' = Append(attempts, [kind |-> "cmd", outcome |-> "short_header"])
    /\ UNCHANGED <<drvVars, lockVars, busVars, bufVars, running, wire, in_waiting, segs, rx_buffer, rx_bytes, errors,
                   error_log, cmd_id, length, subscribers, bufs, fed, seen,
                   steals, published, bodies, callback_log, cmd_log, due, got>>

\* header_data = read(2); cmd_id, length (lines 391-396)
ParseReadHeader ==
    /\ pc = "read_hdr"
    /\ \E r \in {Read(rx_buffer, 2)} :
          /\ rx_buffer' = r.buf
          /\ IF Len(r.ret) < 2
             THEN /\ HandleError("parse_worker")
                  /\ pc' = "loop"
                  /\ attempts' = Append(attempts, [kind |-> "cmd", outcome |-> "index_error"])
                  /\ UNCHANGED <<cmd_id, length>>
             ELSE /\ cmd_id' = r.ret[1]
                  /\ length' = r.ret[2]
                  /\ pc' = "wait_payload"
                  /\ UNCHANGED <<errors, error_log, attempts>>
    /\ UNCHANGED <<drvVars, lockVars, busVars, bufVars, running, wire, in_waiting, segs, rx_bytes,
                   frame_state, subscribers, bufs, fed, seen,
                   steals, published, bodies, callback_log, cmd_log, due, got>>

\* variant of ParseWaitPayload: the wait is left when more than total_needed bytes
\* are available (<= in place of < at line 397)
ParseWaitPayloadStrict ==
    /\ pc = "wait_payload"
    /\ ~running \/ get_available(rx_buffer) > length + 1
    /\ pc' = "check_payload"
    /\ UNCHANGED <<bufVars, lockVars, running, wire, in_waiting, segs, rx_buffer, rx_bytes,
                   errors, error_log, frame_state, cmd_id, length, subscribers, bufs, fed,
                   seen, steals, published, bodies, callback_log, cmd_log, attempts, due, got,
                   drvVars, busVars>>

\* while self.running and get_available() < total_needed (lines 397-398): left
ParseWaitPayload ==
    /\ pc = "wait_payload"
    /\ ~running \/ get_available(rx_buffer) >= length + 1
    /\ pc' = "check_payload"
    /\ UNCHANGED <<drvVars, lockVars, busVars, bufVars, running, wire, in_waiting, segs, rx_buffer, rx_bytes, errors,
                   error_log, frame_state, cmd_id, length, subscribers, bufs, fed, seen,
                   steals, published, bodies, callback_log, cmd_log, attempts, due, got>>

\* if get_available() >= total_needed (line 400), else lines 414-417
ParseCheckPayload ==
    /\ pc = "check_payload"
    /\ IF get_available(rx_buffer) >= length + 1
       THEN /\ pc' = "read_payload"
            /\ UNCHANGED <<frame_state, attempts>>
       ELSE /\ pc' = "loop"
            /\ frame_state' = 0
            /\ attempts' = Append(attempts, [kind |-> "cmd", outcome |-> "short_payload"])
    /\ UNCHANGED <<drvVars, lockVars, busVars, bufVars, running, wire, in_waiting, segs, rx_buffer, rx_bytes, errors,
                   error_log, cmd_id, length, subscribers, bufs, fed, seen,
                   steals, published, bodies, callback_log, cmd_log, due, got>>

\* content_checksum = read(total_needed) and the checksum test (lines 402-417)
ParseReadPayload ==
    /\ pc = "read_payload"
    /\ \E r \in {Read(rx_buffer, length + 1)} : \E content_checksum \in {r.ret} :
          /\ rx_buffer' = r.buf
          /\ IF content_checksum = <<>>
             THEN /\ HandleError("parse_worker")
                  /\ attempts' = Append(attempts, [kind |-> "cmd", outcome |-> "index_error"])
                  /\ UNCHANGED <<frame_state, cmd_log>>
             ELSE LET content == SubSeq(content_checksum, 1, Len(content_checksum) - 1)
                      received_checksum == content_checksum[Len(content_checksum)]
                      calculated_checksum == CalcChecksum(cmd_id, length, content)
                  IN /\ IF calculated_checksum = received_checksum
                        THEN /\ cmd_log' = Append(cmd_log,
                                              [cmd_id |-> cmd_id, length |-> length,
                                               content |-> content,
                                               checksum |-> received_checksum])
                             /\ attempts' = Append(attempts,
                                              [kind |-> "cmd", outcome |-> "accepted"])
                        ELSE /\ cmd_log' = cmd_log
                             /\ attempts' = Append(attempts,
                                              [kind |-> "cmd", outcome |-> "checksum_mismatch"])
                     /\ frame_state' = 0
                     /\ UNCHANGED <<errors, error_log>>
    /\ pc' = "loop"
    /\ UNCHANGED <<drvVars, lockVars, busVars, bufVars, running, wire, in_waiting, segs, rx_bytes,
                   cmd_id, length, subscribers, bufs, fed, seen,
                   steals, published, bodies, callback_log, due, got>>

----------------------------------------------------------------------------
(* The consumers of decoded frames *)

\* capacity of the buffer a consumer constructs
SubCapOf(h) == IF h = "s1" THEN SubCap ELSE SubCap + 1

\* variant of SubscribeResult: the test of line 95 is dropped, True is returned always
SubscribeNoCheck(subs, h) == [subs |-> subs \cup {h}, ret |-> TRUE]

\* DataFramePublisher.subscribe: the registry afterwards and the value returned
SubscribeResult(subs, h) ==
    IF h \in subs
    THEN [subs |-> subs, ret |-> FALSE]
    ELSE [subs |-> subs \cup {h}, ret |-> TRUE]

\* variant of UnsubscribeResult: True is returned but the buffer stays registered
\* (line 114 dropped)
UnsubscribeKeeps(subs, h) ==
    IF h \notin subs
    THEN [subs |-> subs, ret |-> FALSE]
    ELSE [subs |-> subs, ret |-> TRUE]

\* DataFramePublisher.unsubscribe: the registry afterwards and the value returned
UnsubscribeResult(subs, h) ==
    IF h \notin subs
    THEN [subs |-> subs, ret |-> FALSE]
    ELSE [subs |-> subs \ {h}, ret |-> TRUE]

\* DataFramePublisher.subscribe(buffer)
Subscribe(h) ==
    /\ last_op' = "subscribe"
    /\ last_arg' = h
    /\ last_ret' = SubscribeResult(subscribers, h).ret
    /\ subscribers' = SubscribeResult(subscribers, h).subs
    /\ UNCHANGED <<drvVars, lockVars, busVars, cb, accepted, removed, issued,
                   running, wire, in_waiting, segs, rx_buffer, rx_bytes, errors,
                   error_log, frame_state, pc, cmd_id, length, bufs, fed, seen,
                   steals, published, bodies, callback_log, cmd_log, attempts, due, got>>

\* DataFramePublisher.unsubscribe(buffer)
Unsubscribe(h) ==
    /\ last_op' = "unsubscribe"
    /\ last_arg' = h
    /\ last_ret' = UnsubscribeResult(subscribers, h).ret
    /\ subscribers' = UnsubscribeResult(subscribers, h).subs
    /\ UNCHANGED <<drvVars, lockVars, busVars, cb, accepted, removed, issued,
                   running, wire, in_waiting, segs, rx_buffer, rx_bytes, errors,
                   error_log, frame_state, pc, cmd_id, length, bufs, fed, seen,
                   steals, published, bodies, callback_log, cmd_log, attempts, due, got>>

\* a consumer drains its buffer: if not buffer.is_empty(): data = buffer.read()
SubRead(h) ==
    /\ ~is_empty(bufs[h])
    /\ LET r == ReadAll(bufs[h])
       IN /\ bufs' = [bufs EXCEPT ![h] = r.buf]
          /\ got' = [got EXCEPT ![h] = got[h] \o r.ret]
    /\ UNCHANGED <<drvVars, lockVars, busVars, bufVars, running, wire, in_waiting, segs, rx_buffer, rx_bytes, errors,
                   error_log, frame_state, pc, cmd_id, length, subscribers, fed, seen,
                   steals, published, bodies, callback_log, cmd_log, attempts, due>>

----------------------------------------------------------------------------
(* SpecDec: the driver is open; one RX worker, one decode worker, the consumers *)

InitDec ==
    /\ cb = NewBuffer(1, BYTEARRAY)
    /\ last_op = "init"
    /\ last_arg = 0
    /\ last_ret = 0
    /\ accepted = <<>>
    /\ removed = 0
    /\ issued = 0
    /\ running = TRUE
    /\ wire = <<>>
    /\ in_waiting = <<>>
    /\ segs = <<>>
    /\ rx_buffer = NewBuffer(RxSize, BYTEARRAY)
    /\ rx_bytes = 0
    /\ errors = 0
    /\ error_log = <<>>
    /\ frame_state = 0
    /\ pc = "loop"
    /\ cmd_id = 0
    /\ length = 0
    /\ subscribers = {"s1", "s2"}
    /\ bufs = [h \in Handles |-> NewBuffer(SubCapOf(h), LIST)]
    /\ fed = <<>>
    /\ seen = <<>>
    /\ steals = 0
    /\ published = <<>>
    /\ bodies = <<>>
    /\ callback_log = <<>>
    /\ cmd_log = <<>>
    /\ attempts = <<>>
    /\ due = [h \in Handles |-> <<>>]
    /\ got = [h \in Handles |-> <<>>]
    /\ LockIdle
    /\ DrvOpen

NextDec ==
    \/ \E kind \in SegKinds, junk \in JunkBytes, split \in BOOLEAN :
          DeviceSend(kind, junk, split)
    \/ Arrive
    \/ RxStep
    \/ ParseRound
    \/ ParseWaitBody
    \/ ParseReadBody
    \/ ParseWaitHeader
    \/ ParseCheckHeader
    \/ ParseReadHeader
    \/ ParseWaitPayload
    \/ ParseCheckPayload
    \/ ParseReadPayload
    \/ \E h \in Handles : SubRead(h)

SpecDec == InitDec /\ [][NextDec]_vars

----------------------------------------------------------------------------
(* SpecRace: SpecDec with the calls other threads make on the driver *)

\* close(): self.running = False (line 94)
CloseFlag ==
    /\ running
    /\ running' = FALSE
    /\ UNCHANGED <<drvVars, lockVars, busVars, bufVars, wire, in_waiting, segs, rx_buffer, rx_bytes, errors,
                   error_log, frame_state, pc, cmd_id, length, subscribers, bufs, fed, seen,
                   steals, published, bodies, callback_log, cmd_log, attempts, due, got>>

\* receive(size) with timeout 0 from another thread: rx_buffer.read(size) (line 148)
Receive(size) ==
    /\ steals < MaxSteals
    /\ ~is_empty(rx_buffer)
    /\ rx_buffer' = Read(rx_buffer, size).buf
    /\ steals' = steals + 1
    /\ UNCHANGED <<drvVars, lockVars, busVars, bufVars, running, wire, in_waiting, segs, rx_bytes, errors,
                   error_log, frame_state, pc, cmd_id, length, subscribers, bufs, fed, seen,
                   published, bodies, callback_log, cmd_log, attempts, due, got>>

\* clear_rx_buffer() from another thread (lines 201-203); receive() with no size
\* empties the buffer in the same way
ClearRx ==
    /\ steals < MaxSteals
    /\ ~is_empty(rx_buffer)
    /\ rx_buffer' = Clear(rx_buffer)
    /\ steals' = steals + 1
    /\ UNCHANGED <<drvVars, lockVars, busVars, bufVars, running, wire, in_waiting, segs, rx_bytes, errors,
                   error_log, frame_state, pc, cmd_id, length, subscribers, bufs, fed, seen,
                   published, bodies, callback_log, cmd_log, attempts, due, got>>

NextRace ==
    \/ \E kind \in {"data", "badtail", "cmd"} :
          Len(segs) < MaxRaceSegs /\ DeviceSend(kind, 0, FALSE)
    \/ RxStep
    \/ ParseLoop
    \/ ParseByte
    \/ ParseWaitBody
    \/ ParseReadBody
    \/ ParseWaitHeader
    \/ ParseCheckHeader
    \/ ParseReadHeader
    \/ ParseWaitPayload
    \/ ParseCheckPayload
    \/ ParseReadPayload
    \/ CloseFlag
    \/ Receive(1)
    \/ ClearRx

SpecRace == InitDec /\ [][NextRace]_vars

----------------------------------------------------------------------------
(* UartSrc/simple_uart.py: the TX side, statement by statement *)

\* the bytes of the next call of send: numbered, so that every byte is distinct
SendBytes(from, n) == [i \in 1..n |-> from + i]

\* send(data): the test of line 126
SendCheck(n) ==
    /\ send_pc = "idle"
    /\ tx_issued + n <= MaxSend
    /\ IF ~running \/ ~is_open
       THEN /\ send_ret' = FALSE
            /\ UNCHANGED <<send_pc, send_data, tx_issued>>
       ELSE /\ send_pc' = "write"
            /\ send_data' = SendBytes(tx_issued, n)
            /\ tx_issued' = tx_issued + n
            /\ UNCHANGED send_ret
    /\ UNCHANGED <<bufVars, lockVars, busVars, decVars, is_open, tx_buffer, tx_bytes, rx_pc, rx_data,
                   tx_pc, tx_available, tx_data, close_pc, tx_accepted, tx_cleared, sent,
                   flushed, faults>>

\* variant of SendWrite: tx_bytes grows by len(data) and True is returned whatever
\* write stored (lines 130-133 without the test of written)
SendWriteCountsAll ==
    /\ send_pc = "write"
    /\ LET w == Write(tx_buffer, send_data, "bytes")
       IN /\ tx_buffer' = w.buf
          /\ tx_bytes' = tx_bytes + Len(send_data)
          /\ send_ret' = TRUE
          /\ tx_accepted' = tx_accepted \o SubSeq(send_data, 1, w.ret)
    /\ send_pc' = "idle"
    /\ send_data' = <<>>
    /\ UNCHANGED <<bufVars, lockVars, decVars, is_open, rx_pc, rx_data, tx_pc, tx_available,
                   tx_data, close_pc, tx_issued, tx_cleared, sent, flushed, faults, busVars>>

\* send(data): written = self.tx_buffer.write(data) and the return (lines 129-133)
SendWrite ==
    /\ send_pc = "write"
    /\ LET w == Write(tx_buffer, send_data, "bytes")
       IN /\ tx_buffer' = w.buf
          /\ tx_bytes' = IF w.ret > 0 THEN tx_bytes + w.ret ELSE tx_bytes
          /\ send_ret' = (w.ret > 0)
          /\ tx_accepted' = tx_accepted \o SubSeq(send_data, 1, w.ret)
    /\ send_pc' = "idle"
    /\ send_data' = <<>>
    /\ UNCHANGED <<bufVars, lockVars, busVars, decVars, is_open, rx_pc, rx_data, tx_pc, tx_available,
                   tx_data, close_pc, tx_issued, tx_cleared, sent, flushed, faults>>

\* clear_tx_buffer() from another thread (lines 205-207)
ClearTx ==
    /\ ~is_empty(tx_buffer)
    /\ tx_cleared' = tx_cleared \o Contents(tx_buffer)
    /\ tx_buffer' = Clear(tx_buffer)
    /\ UNCHANGED <<bufVars, lockVars, busVars, decVars, is_open, tx_bytes, rx_pc, rx_data, tx_pc,
                   tx_available, tx_data, close_pc, send_pc, send_data, send_ret, tx_issued,
                   tx_accepted, sent, flushed, faults>>

\* _tx_worker: while self.running and self.serial and self.serial.is_open (line 238)
TxLoop ==
    /\ tx_pc = "loop"
    /\ tx_pc' = IF running /\ is_open THEN "avail" ELSE "done"
    /\ UNCHANGED <<bufVars, lockVars, busVars, decVars, is_open, tx_buffer, tx_bytes, rx_pc, rx_data,
                   tx_available, tx_data, close_pc, send_pc, send_data, send_ret, tx_issued,
                   tx_accepted, tx_cleared, sent, flushed, faults>>

\* available = self.tx_buffer.get_available() and its test (lines 241-242, 248-250)
TxAvail ==
    /\ tx_pc = "avail"
    /\ tx_available' = get_available(tx_buffer)
    /\ tx_pc' = IF get_available(tx_buffer) > 0 THEN "read" ELSE "loop"
    /\ UNCHANGED <<bufVars, lockVars, busVars, decVars, is_open, tx_buffer, tx_bytes, rx_pc, rx_data,
                   tx_data, close_pc, send_pc, send_data, send_ret, tx_issued, tx_accepted,
                   tx_cleared, sent, flushed, faults>>

\* variant of TxTake: the whole buffer is taken in one round (the min of line 244
\* dropped)
TxTakeAll(b, available) == Read(b, available)

\* data = self.tx_buffer.read(min(available, 1024)) (line 244)
TxTake(b, available) == Read(b, Min(available, TxChunk))

\* line 244 and the test of line 245
TxRead ==
    /\ tx_pc = "read"
    /\ LET r == TxTake(tx_buffer, tx_available)
       IN /\ tx_buffer' = r.buf
          /\ tx_data' = r.ret
          /\ tx_pc' = IF r.ret # <<>> THEN "write" ELSE "loop"
    /\ UNCHANGED <<bufVars, lockVars, busVars, decVars, is_open, tx_bytes, rx_pc, rx_data, tx_available,
                   close_pc, send_pc, send_data, send_ret, tx_issued, tx_accepted, tx_cleared,
                   sent, flushed, faults>>

\* self.serial.write(data); self.serial.flush() (lines 246-247); when the port is
\* closed or fails the write raises and lines 252-254 report it
TxWrite(fail) ==
    /\ tx_pc = "write"
    /\ fail => faults < MaxFaults
    /\ sent' = Append(sent, tx_data)
    /\ IF fail \/ ~is_open
       THEN /\ HandleError("tx_worker")
            /\ faults' = IF fail THEN faults + 1 ELSE faults
            /\ UNCHANGED flushed
       ELSE /\ flushed' = flushed + 1
            /\ UNCHANGED <<errors, error_log, faults>>
    /\ tx_data' = <<>>
    /\ tx_pc' = "loop"
    /\ UNCHANGED <<bufVars, lockVars, busVars, running, wire, in_waiting, segs, rx_buffer, rx_bytes,
                   frame_state, pc, cmd_id, length, subscribers, bufs, fed, seen, steals,
                   published, bodies, callback_log, cmd_log, attempts, due, got, is_open,
                   tx_buffer, tx_bytes, rx_pc, rx_data, tx_available, close_pc, send_pc,
                   send_data, send_ret, tx_issued, tx_accepted, tx_cleared>>

----------------------------------------------------------------------------
(* SpecTx: the driver is open; callers of send and clear_tx_buffer, the TX worker *)

NextTx ==
    \/ \E n \in 1..TxChunk : SendCheck(n)
    \/ SendWrite
    \/ ClearTx
    \/ TxLoop
    \/ TxAvail
    \/ TxRead
    \/ \E fail \in BOOLEAN : TxWrite(fail)

SpecTx == InitDec /\ [][NextTx]_vars

----------------------------------------------------------------------------
(* UartSrc/simple_uart.py: the RX worker statement by statement, and close() *)

\* the device sends its next segment, of which the first n bytes reach the open port
\* ahead of the rest
DeviceSendHead(kind, n) ==
    /\ is_open
    /\ wire = <<>>
    /\ in_waiting = <<>>
    /\ LET seg == [kind |-> kind, k |-> Len(segs) + 1]
           bytes == SegBytes(seg)
       IN /\ segs' = Append(segs, seg)
          /\ in_waiting' = SubSeq(bytes, 1, Min(n, Len(bytes)))
          /\ wire' = SubSeq(bytes, Min(n, Len(bytes)) + 1, Len(bytes))
    /\ UNCHANGED <<bufVars, lockVars, busVars, running, rx_buffer, rx_bytes, errors, error_log,
                   frame_state, pc, cmd_id, length, subscribers, bufs, fed, seen, steals,
                   published, bodies, callback_log, cmd_log, attempts, due, got, drvVars>>

\* _rx_worker: while self.running and self.serial and self.serial.is_open (line 211)
RxLoop ==
    /\ rx_pc = "loop"
    /\ rx_pc' = IF running /\ is_open THEN "poll" ELSE "done"
    /\ UNCHANGED <<bufVars, lockVars, busVars, decVars, is_open, tx_buffer, tx_bytes, rx_data, tx_pc,
                   tx_available, tx_data, close_pc, send_pc, send_data, send_ret, tx_issued,
                   tx_accepted, tx_cleared, sent, flushed, faults>>

\* if self.serial.in_waiting > 0: data = self.serial.read(...) (lines 214-217), else
\* the sleep of line 230; a closed or failing port raises and lines 232-234 report it
RxPoll(fail) ==
    /\ rx_pc = "poll"
    /\ fail => faults < MaxFaults
    /\ IF fail \/ ~is_open
       THEN /\ HandleError("rx_worker")
            /\ faults' = IF fail THEN faults + 1 ELSE faults
            /\ rx_pc' = "loop"
            /\ UNCHANGED <<rx_data, in_waiting>>
       ELSE /\ rx_data' = in_waiting
            /\ in_waiting' = <<>>
            /\ rx_pc' = IF Len(in_waiting) > 0 THEN "store" ELSE "loop"
            /\ UNCHANGED <<errors, error_log, faults>>
    /\ UNCHANGED <<bufVars, lockVars, busVars, running, wire, segs, rx_buffer, rx_bytes, frame_state,
                   pc, cmd_id, length, subscribers, bufs, fed, seen, steals, published, bodies,
                   callback_log, cmd_log, attempts, due, got, is_open, tx_buffer, tx_bytes,
                   tx_pc, tx_available, tx_data, close_pc, send_pc, send_data, send_ret,
                   tx_issued, tx_accepted, tx_cleared, sent, flushed>>

\* written = self.rx_buffer.write(data); self.rx_bytes += written; the callback,
\* which may raise (lines 219-227)
RxStore(fail) ==
    /\ rx_pc = "store"
    /\ fail => faults < MaxFaults
    /\ LET w == Write(rx_buffer, rx_data, "bytes")
       IN /\ rx_buffer' = w.buf
          /\ rx_bytes' = rx_bytes + w.ret
          /\ fed' = fed \o SubSeq(rx_data, 1, w.ret)
          /\ IF fail /\ w.ret > 0
             THEN /\ HandleError("rx_callback")
                  /\ faults' = faults + 1
             ELSE UNCHANGED <<errors, error_log, faults>>
    /\ rx_data' = <<>>
    /\ rx_pc' = "loop"
    /\ UNCHANGED <<bufVars, lockVars, busVars, running, wire, in_waiting, segs, frame_state, pc, cmd_id,
                   length, subscribers, bufs, seen, steals, published, bodies, callback_log,
                   cmd_log, attempts, due, got, is_open, tx_buffer, tx_bytes, tx_pc,
                   tx_available, tx_data, close_pc, send_pc, send_data, send_ret, tx_issued,
                   tx_accepted, tx_cleared, sent, flushed>>

\* close(): self.running = False (line 94)
CloseBegin ==
    /\ close_pc = "idle"
    /\ running
    /\ running' = FALSE
    /\ close_pc' = "join_rx"
    /\ UNCHANGED <<bufVars, lockVars, busVars, wire, in_waiting, segs, rx_buffer, rx_bytes, errors,
                   error_log, frame_state, pc, cmd_id, length, subscribers, bufs, fed, seen,
                   steals, published, bodies, callback_log, cmd_log, attempts, due, got,
                   is_open, tx_buffer, tx_bytes, rx_pc, rx_data, tx_pc, tx_available, tx_data,
                   send_pc, send_data, send_ret, tx_issued, tx_accepted, tx_cleared, sent,
                   flushed, faults>>

\* rx_thread.join(timeout=1.0) (lines 97-98): returns when the worker has ended or
\* when the second has passed
CloseJoinRx ==
    /\ close_pc = "join_rx"
    /\ close_pc' = "join_tx"
    /\ UNCHANGED <<bufVars, lockVars, busVars, decVars, is_open, tx_buffer, tx_bytes, rx_pc, rx_data,
                   tx_pc, tx_available, tx_data, send_pc, send_data, send_ret, tx_issued,
                   tx_accepted, tx_cleared, sent, flushed, faults>>

\* tx_thread.join(timeout=1.0) (lines 100-101)
CloseJoinTx ==
    /\ close_pc = "join_tx"
    /\ close_pc' = "join_parse"
    /\ UNCHANGED <<bufVars, lockVars, busVars, decVars, is_open, tx_buffer, tx_bytes, rx_pc, rx_data,
                   tx_pc, tx_available, tx_data, send_pc, send_data, send_ret, tx_issued,
                   tx_accepted, tx_cleared, sent, flushed, faults>>

\* parse_thread.join(timeout=1.0) (lines 103-104)
CloseJoinParse ==
    /\ close_pc = "join_parse"
    /\ close_pc' = "close_serial"
    /\ UNCHANGED <<bufVars, lockVars, busVars, decVars, is_open, tx_buffer, tx_bytes, rx_pc, rx_data,
                   tx_pc, tx_available, tx_data, send_pc, send_data, send_ret, tx_issued,
                   tx_accepted, tx_cleared, sent, flushed, faults>>

\* self.serial.close() (lines 107-108): what the port still held is gone
ClosePort ==
    /\ close_pc = "close_serial"
    /\ is_open' = FALSE
    /\ in_waiting' = <<>>
    /\ wire' = <<>>
    /\ close_pc' = "clear_rx"
    /\ UNCHANGED <<bufVars, lockVars, busVars, running, segs, rx_buffer, rx_bytes, errors, error_log,
                   frame_state, pc, cmd_id, length, subscribers, bufs, fed, seen, steals,
                   published, bodies, callback_log, cmd_log, attempts, due, got, tx_buffer,
                   tx_bytes, rx_pc, rx_data, tx_pc, tx_available, tx_data, send_pc, send_data,
                   send_ret, tx_issued, tx_accepted, tx_cleared, sent, flushed, faults>>

\* self.rx_buffer.clear() (line 111)
CloseClearRx ==
    /\ close_pc = "clear_rx"
    /\ rx_buffer' = Clear(rx_buffer)
    /\ close_pc' = "clear_tx"
    /\ UNCHANGED <<bufVars, lockVars, busVars, running, wire, in_waiting, segs, rx_bytes, errors,
                   error_log, frame_state, pc, cmd_id, length, subscribers, bufs, fed, seen,
                   steals, published, bodies, callback_log, cmd_log, attempts, due, got,
                   is_open, tx_buffer, tx_bytes, rx_pc, rx_data, tx_pc, tx_available, tx_data,
                   send_pc, send_data, send_ret, tx_issued, tx_accepted, tx_cleared, sent,
                   flushed, faults>>

\* self.tx_buffer.clear() (line 112) and the return
CloseClearTx ==
    /\ close_pc = "clear_tx"
    /\ tx_cleared' = tx_cleared \o Contents(tx_buffer)
    /\ tx_buffer' = Clear(tx_buffer)
    /\ close_pc' = "returned"
    /\ UNCHANGED <<bufVars, lockVars, busVars, decVars, is_open, tx_bytes, rx_pc, rx_data, tx_pc,
                   tx_available, tx_data, send_pc, send_data, send_ret, tx_issued, tx_accepted,
                   sent, flushed, faults>>

----------------------------------------------------------------------------
(* SpecStop: the open driver with its three workers, a device that sends one
   frame, a caller of send and a caller of close *)

\* the steps of the RX worker; F tells whether the port and the callback may fail
RxNext(F) == RxLoop \/ \E fail \in F : RxPoll(fail) \/ RxStore(fail)

\* the steps of the TX worker; F tells whether the port may fail
TxNext(F) == TxLoop \/ TxAvail \/ TxRead \/ \E fail \in F : TxWrite(fail)

\* the steps of the decode worker
ParseNext ==
    \/ ParseLoop
    \/ ParseByte
    \/ ParseWaitBody
    \/ ParseReadBody
    \/ ParseWaitHeader
    \/ ParseCheckHeader
    \/ ParseReadHeader
    \/ ParseWaitPayload
    \/ ParseCheckPayload
    \/ ParseReadPayload

\* the steps of the thread inside close()
CloseNext ==
    \/ CloseBegin
    \/ CloseJoinRx
    \/ CloseJoinTx
    \/ CloseJoinParse
    \/ ClosePort
    \/ CloseClearRx
    \/ CloseClearTx

\* one frame comes in, split in two, and one byte is handed to send
StopStep(F) ==
    \/ \E kind \in {"data", "cmd"}, n \in {Chunk, Chunk + 1} :
          segs = <<>> /\ DeviceSendHead(kind, n)
    \/ Arrive
    \/ RxNext(F)
    \/ TxNext(F)
    \/ ParseNext
    \/ CloseNext
    \/ tx_issued = 0 /\ SendCheck(1)
    \/ SendWrite

\* the port and the data_received_callback may fail, MaxFaults times in all
NextStop == StopStep(BOOLEAN)

SpecStop == InitDec /\ [][NextStop]_vars

----------------------------------------------------------------------------
(* SpecCancel: SpecStop with a port and a callback that do not fail, and every
   worker thread scheduled again and again *)

NextCancel == StopStep({FALSE})

SpecCancel ==
    /\ InitDec
    /\ [][NextCancel]_vars
    /\ WF_vars(RxNext({FALSE}))
    /\ WF_vars(TxNext({FALSE}))
    /\ WF_vars(ParseNext)

\* C23: once running is False, the RX worker, the TX worker and the decode worker
\* each leave their loop for good, wherever they were when the flag was cleared
Cancellation ==
    (~running) ~> [](rx_pc = "done" /\ tx_pc = "done" /\ pc = "done")

\* the flag was cleared while the decode worker waited for the rest of a body, a
\* header or a payload, and all three workers have ended
CancellationWitness ==
    /\ ~running
    /\ rx_pc = "done"
    /\ tx_pc = "done"
    /\ pc = "done"
    /\ \/ \E i \in DOMAIN attempts : attempts[i].outcome \in {"short_header", "short_payload"}
       \/ \E i \in DOMAIN attempts :
             attempts[i].kind = "data" /\ attempts[i].outcome # "publish"

----------------------------------------------------------------------------
(* SpecBus: the DataFramePublisher called directly, with three consumer buffers *)

\* the buffer a consumer registers: s1 and s2 hold objects, s3 holds bytes
BusTypeOf(h) == IF h = "s3" THEN BYTEARRAY ELSE LIST

\* the frame of the k-th call of publish
BusFrame(k) == DecodeFrame(DataBody(k, TAIL))

InitBus ==
    /\ cb = NewBuffer(1, BYTEARRAY)
    /\ last_op = "init"
    /\ last_arg = 0
    /\ last_ret = 0
    /\ accepted = <<>>
    /\ removed = 0
    /\ issued = 0
    /\ running = FALSE
    /\ wire = <<>>
    /\ in_waiting = <<>>
    /\ segs = <<>>
    /\ rx_buffer = NewBuffer(RxSize, BYTEARRAY)
    /\ rx_bytes = 0
    /\ errors = 0
    /\ error_log = <<>>
    /\ frame_state = 0
    /\ pc = "idle"
    /\ cmd_id = 0
    /\ length = 0
    /\ subscribers = {}
    /\ bufs = [h \in Handles |-> NewBuffer(SubCapOf(h), BusTypeOf(h))]
    /\ fed = <<>>
    /\ seen = <<>>
    /\ steals = 0
    /\ published = <<>>
    /\ bodies = <<>>
    /\ callback_log = <<>>
    /\ cmd_log = <<>>
    /\ attempts = <<>>
    /\ due = [h \in Handles |-> <<>>]
    /\ got = [h \in Handles |-> <<>>]
    /\ LockIdle
    /\ DrvIdle

\* DataFramePublisher.publish(frame) called with a new frame
BusPublish ==
    /\ last_op' = "publish"
    /\ Len(published) < MaxPub
    /\ LET frame == BusFrame(Len(published) + 1)
           pub == Publish(bufs, subscribers, frame)
       IN /\ last_arg' = Len(published) + 1
          /\ last_ret' = pub.count
          /\ bufs' = pub.bufs
          /\ published' = Append(published, frame)
          /\ due' = [h \in DOMAIN due |->
                       IF h \in subscribers THEN Append(due[h], frame) ELSE due[h]]
    /\ UNCHANGED <<drvVars, lockVars, busVars, cb, accepted, removed, issued,
                   running, wire, in_waiting, segs, rx_buffer, rx_bytes, errors,
                   error_log, frame_state, pc, cmd_id, length, subscribers, fed, seen,
                   steals, bodies, callback_log, cmd_log, attempts, got>>

NextBus ==
    \/ \E h \in Handles : Subscribe(h)
    \/ \E h \in Handles : Unsubscribe(h)
    \/ BusPublish
    \/ \E h \in Handles : SubRead(h)

SpecBus == InitBus /\ [][NextBus]_vars

\* C18: subscribe returns True and registers a buffer that was not registered and
\* returns False without changing the registry for one that was; unsubscribe
\* returns True and removes a registered buffer and returns False otherwise;
\* neither touches any buffer, and a publish gives a registered buffer with room
\* exactly one copy of the frame, also when it was subscribed a second time.
SubscribeContract ==
    [][/\ \A h \in Handles :
             (last_op' = "subscribe" /\ Subscribe(h)) =>
                /\ last_ret' = (h \notin subscribers)
                /\ subscribers' = subscribers \cup {h}
                /\ (h \in subscribers => subscribers' = subscribers)
                /\ bufs' = bufs
       /\ \A h \in Handles :
             (last_op' = "unsubscribe" /\ Unsubscribe(h)) =>
                /\ last_ret' = (h \in subscribers)
                /\ subscribers' = subscribers \ {h}
                /\ (h \notin subscribers => subscribers' = subscribers)
                /\ bufs' = bufs
       /\ (last_op' = "publish" /\ BusPublish) =>
             \A h \in subscribers :
                (bufs[h].buffer_type = LIST /\ ~is_full(bufs[h])) =>
                   Contents(bufs'[h]) =
                      Append(Contents(bufs[h]), BusFrame(Len(published) + 1))]_vars

\* the second subscribe of a registered buffer has just returned False
\* while the buffer holds the one copy of the frame published before
SubscribeTwiceWitness ==
    /\ last_op = "subscribe"
    /\ last_ret = FALSE
    /\ last_arg \in subscribers
    /\ Len(published) = 1
    /\ Contents(bufs[last_arg]) = published

\* C19: publish offers the frame to every registered buffer: an object buffer
\* with room gets it appended, a full buffer or a byte-typed buffer is left exactly
\* as it was and does not stop the others, no unregistered buffer changes, and the
\* value returned is the number of registered buffers whose available grew by one.
PublishContract ==
    [][(last_op' = "publish" /\ BusPublish) =>
          LET frame == BusFrame(Len(published) + 1)
              takes(h) == /\ h \in subscribers
                          /\ bufs[h].buffer_type = LIST
                          /\ ~is_full(bufs[h])
          IN /\ \A h \in Handles :
                   IF takes(h)
                   THEN /\ Contents(bufs'[h]) = Append(Contents(bufs[h]), frame)
                        /\ bufs'[h].available = bufs[h].available + 1
                   ELSE bufs'[h] = bufs[h]
             /\ last_ret' = Cardinality({h \in subscribers :
                                bufs'[h].available = bufs[h].available + 1})]_vars

\* one publish met a full buffer, a byte-typed buffer and a buffer with room, all
\* three registered: only the last one took the frame and 1 was returned
PublishWitness ==
    /\ last_op = "publish"
    /\ last_ret = 1
    /\ subscribers = Handles
    /\ Len(published) = 2
    /\ due["s1"] = published
    /\ due["s3"] = published
    /\ Contents(bufs["s1"]) = <<BusFrame(1)>>
    /\ got["s1"] = <<>>
    /\ Contents(bufs["s2"]) = <<BusFrame(2)>>
    /\ is_empty(bufs["s3"])

\* C20: a publish with two registered empty object buffers leaves each holding
\* exactly the one frame; a publish that follows a successful unsubscribe leaves
\* the unsubscribed buffer as it was and grows every still-registered object
\* buffer with room by the frame.
FanOut ==
    [][(last_op' = "publish" /\ BusPublish) =>
          LET frame == BusFrame(Len(published) + 1)
              lists == {h \in subscribers : bufs[h].buffer_type = LIST}
          IN /\ (Cardinality(lists) = 2 /\ \A h \in lists : is_empty(bufs[h])) =>
                   \A h \in lists : /\ Contents(bufs'[h]) = <<frame>>
                                    /\ bufs'[h].available = 1
             /\ (last_op = "unsubscribe" /\ last_ret = TRUE) =>
                   /\ bufs'[last_arg] = bufs[last_arg]
                   /\ \A h \in lists :
                         IF is_full(bufs[h])
                         THEN bufs'[h] = bufs[h]
                         ELSE Contents(bufs'[h]) = Append(Contents(bufs[h]), frame)
                   /\ \A h \in Handles \ subscribers : bufs'[h] = bufs[h]]_vars

\* the scenario of the test: both buffers took the first frame, then s1 was
\* unsubscribed and the second publish reached s2 only
FanOutWitness ==
    /\ last_op = "publish"
    /\ Len(published) = 2
    /\ subscribers = {"s2"}
    /\ due["s1"] = <<BusFrame(1)>>
    /\ due["s2"] = published
    /\ due["s3"] = <<>>
    /\ Contents(bufs["s1"]) = <<BusFrame(1)>>
    /\ got["s1"] = <<>>
    /\ Contents(bufs["s2"]) = published

----------------------------------------------------------------------------
(* SpecLock: two threads in the methods of one CircularBuffer, statement by statement *)

LockedOps == {"write", "read", "peek", "consume", "get_available", "get_free_space",
              "clear"}

UnlockedOps == {"is_empty", "is_full"}

InitLock ==
    /\ cb = NewBuffer(LockCap, BYTEARRAY)
    /\ last_op = "init"
    /\ last_arg = 0
    /\ last_ret = 0
    /\ accepted = <<>>
    /\ removed = 0
    /\ issued = 0
    /\ DecIdle
    /\ LockIdle
    /\ DrvIdle

\* the call returns: the with-block is left (the lock is released) and the thread is
\* in no method
Return(t) ==
    /\ lock' = "none"
    /\ thr' = [thr EXCEPT ![t] = IdleThread]

\* `with self.lock:` of write, read, peek, consume, get_available, get_free_space
\* and clear: the thread enters once the lock is free; n is the size argument, or
\* the number of bytes handed to write
LockedEnter(t, op, n) ==
    /\ thr[t].pc = "idle"
    /\ lock = "none"
    /\ lock' = t
    /\ thr' = [thr EXCEPT ![t] =
                 [IdleThread EXCEPT !.pc = "locked", !.op = op,
                                    !.data = IF op = "write"
                                             THEN [i \in 1..n |-> i] ELSE <<>>,
                                    !.remaining = n]]
    /\ UNCHANGED <<bufVars, decVars, drvVars,
                   busVars>>

\* write up to its copy loop (lines 61-84)
WriteBegin(t) ==
    /\ thr[t].pc = "locked"
    /\ thr[t].op = "write"
    /\ LET free_space == cb.size - cb.available
           data_len == IF free_space < Len(thr[t].data) THEN free_space
                       ELSE Len(thr[t].data)
       IN IF Len(thr[t].data) = 0 \/ data_len = 0
          THEN Return(t)
          ELSE /\ thr' = [thr EXCEPT ![t].pc = "write_loop",
                                     ![t].data = SubSeq(thr[t].data, 1, data_len),
                                     ![t].data_len = data_len,
                                     ![t].remaining = data_len]
               /\ lock' = lock
    /\ UNCHANGED <<bufVars, decVars, drvVars,
                   busVars>>

\* one round of the copy loop of write (lines 85-99)
WriteIter(t) ==
    /\ thr[t].pc = "write_loop"
    /\ thr[t].remaining > 0
    /\ LET space_to_end == cb.size - cb.write_pos
           chunk_size == Min(thr[t].remaining, space_to_end)
           start_idx == thr[t].data_len - thr[t].remaining
       IN /\ cb' = [cb EXCEPT
                      !.buffer = [i \in DOMAIN cb.buffer |->
                                    IF i >= cb.write_pos /\ i < cb.write_pos + chunk_size
                                    THEN thr[t].data[start_idx + (i - cb.write_pos) + 1]
                                    ELSE cb.buffer[i]],
                      !.write_pos = (cb.write_pos + chunk_size) % cb.size]
          /\ thr' = [thr EXCEPT ![t].remaining = thr[t].remaining - chunk_size]
    /\ UNCHANGED <<lock, last_op, last_arg, last_ret, accepted, removed, issued, decVars, drvVars,
                   busVars>>

\* self.available += data_len; return data_len (lines 101-102)
WriteEnd(t) ==
    /\ thr[t].pc = "write_loop"
    /\ thr[t].remaining = 0
    /\ cb' = [cb EXCEPT !.available = cb.available + thr[t].data_len]
    /\ Return(t)
    /\ UNCHANGED <<last_op, last_arg, last_ret, accepted, removed, issued, decVars, drvVars,
                   busVars>>

\* read up to its copy loop (lines 115-137)
ReadBegin(t) ==
    /\ thr[t].pc = "locked"
    /\ thr[t].op = "read"
    /\ LET size == Min(thr[t].remaining, cb.available)
       IN IF cb.available = 0 \/ size = 0
          THEN Return(t)
          ELSE /\ thr' = [thr EXCEPT ![t].pc = "read_loop",
                                     ![t].data_len = size,
                                     ![t].remaining = size]
               /\ lock' = lock
    /\ UNCHANGED <<bufVars, decVars, drvVars,
                   busVars>>

\* one round of the copy loop of read (lines 139-150)
ReadIter(t) ==
    /\ thr[t].pc = "read_loop"
    /\ thr[t].remaining > 0
    /\ LET data_to_end == Min(thr[t].remaining, cb.size - cb.read_pos)
       IN /\ cb' = [cb EXCEPT !.read_pos = (cb.read_pos + data_to_end) % cb.size]
          /\ thr' = [thr EXCEPT
                       ![t].result = thr[t].result \o
                                     [i \in 1..data_to_end |-> cb.buffer[cb.read_pos + i - 1]],
                       ![t].remaining = thr[t].remaining - data_to_end]
    /\ UNCHANGED <<lock, last_op, last_arg, last_ret, accepted, removed, issued, decVars, drvVars,
                   busVars>>

\* self.available -= size; return (lines 152-159)
ReadEnd(t) ==
    /\ thr[t].pc = "read_loop"
    /\ thr[t].remaining = 0
    /\ cb' = [cb EXCEPT !.available = cb.available - thr[t].data_len]
    /\ Return(t)
    /\ UNCHANGED <<last_op, last_arg, last_ret, accepted, removed, issued, decVars, drvVars,
                   busVars>>

\* the body of peek, consume, get_available, get_free_space or clear, and the return
LockedCall(t) ==
    /\ thr[t].pc = "locked"
    /\ thr[t].op \in {"peek", "consume", "get_available", "get_free_space", "clear"}
    /\ cb' = CASE thr[t].op = "consume" -> Consume(cb, thr[t].remaining).buf
               [] thr[t].op = "clear" -> Clear(cb)
               [] OTHER -> cb
    /\ Return(t)
    /\ UNCHANGED <<last_op, last_arg, last_ret, accepted, removed, issued, decVars, drvVars,
                   busVars>>

\* is_empty() or is_full() is called: no `with self.lock:` (lines 254-260)
UnlockedEnter(t, op) ==
    /\ thr[t].pc = "idle"
    /\ thr' = [thr EXCEPT ![t] = [IdleThread EXCEPT !.pc = "unlocked", !.op = op]]
    /\ UNCHANGED <<lock, bufVars, decVars, drvVars,
                   busVars>>

\* return self.available == 0, or return self.available == self.size
UnlockedReturn(t) ==
    /\ thr[t].pc = "unlocked"
    /\ last_op' = thr[t].op
    /\ last_arg' = 0
    /\ last_ret' = IF thr[t].op = "is_empty" THEN is_empty(cb) ELSE is_full(cb)
    /\ thr' = [thr EXCEPT ![t] = IdleThread]
    /\ UNCHANGED <<lock, cb, accepted, removed, issued, decVars, drvVars,
                   busVars>>

NextLock ==
    \E t \in Threads :
       \/ \E op \in LockedOps, n \in 0..MaxLockArg : LockedEnter(t, op, n)
       \/ WriteBegin(t)
       \/ WriteIter(t)
       \/ WriteEnd(t)
       \/ ReadBegin(t)
       \/ ReadIter(t)
       \/ ReadEnd(t)
       \/ LockedCall(t)
       \/ \E op \in UnlockedOps : UnlockedEnter(t, op)
       \/ UnlockedReturn(t)

SpecLock == InitLock /\ [][NextLock]_vars

\* C17 as stated: a thread inside any method of the buffer, is_empty and is_full
\* included, holds the lock of the buffer
LockHeldThroughout ==
    \A t \in Threads : thr[t].pc # "idle" => lock = t

\* C17: a thread is inside is_empty or is_full while another thread, holding the
\* lock, is between the copy loop of its write and the update of available
UnlockedDuringWrite ==
    \E t, u \in Threads :
       /\ thr[t].pc = "unlocked"
       /\ thr[u].pc = "write_loop"
       /\ thr[u].remaining = 0
       /\ lock = u

----------------------------------------------------------------------------
(* Properties of the decoder and of the delivery of frames *)

Range(q) == {q[i] : i \in DOMAIN q}

KindsOf(ss) == [i \in DOMAIN ss |-> ss[i].kind]

\* nothing is in flight: the port and the inbound buffer are empty and the decode
\* worker is between two bytes
Quiet ==
    /\ wire = <<>>
    /\ in_waiting = <<>>
    /\ is_empty(rx_buffer)
    /\ pc = "loop"

\* every byte the device sent was stored in the inbound buffer
NothingDropped == fed = StreamOf(segs)

Outcomes(kinds) == {i \in DOMAIN attempts : attempts[i].outcome \in kinds}

Resynchronization ==
    (/\ Quiet
     /\ NothingDropped
     /\ KindsOf(segs) = <<"data", "badtail", "cmd">>)
    => /\ \A h \in subscribers : Len(due[h]) = 2
       /\ Len(callback_log) = 2
       /\ errors = 1
       /\ Len(error_log) = 1

DataBodyStep ==
    [][/\ (pc = "loop" /\ frame_state = 1 /\ pc' # pc
           /\ Peek(rx_buffer, 1) = <<DATA_LEAD2>>)
          => /\ pc' = "wait38"
             /\ get_available(rx_buffer') = get_available(rx_buffer) - 1
             /\ published' = published
       /\ (pc = "wait38" /\ pc' # pc /\ running)
          => /\ pc' = "read38"
             /\ get_available(rx_buffer) >= BODY_LEN
             /\ rx_buffer' = rx_buffer
       /\ (pc = "read38" /\ pc' # pc /\ get_available(rx_buffer) >= BODY_LEN)
          => LET body == Peek(rx_buffer, BODY_LEN)
             IN /\ IF body[BODY_LEN] = TAIL
                   THEN /\ published' = Append(published, DecodeFrame(body))
                        /\ callback_log' = Append(callback_log, DecodeFrame(body))
                        /\ \A h \in subscribers :
                              due'[h] = Append(due[h], DecodeFrame(body))
                   ELSE /\ published' = published
                        /\ callback_log' = callback_log
                        /\ bufs' = bufs
                /\ frame_state' = 0
                /\ pc' = "loop"
                /\ get_available(rx_buffer') = get_available(rx_buffer) - BODY_LEN]_vars

\* a body with tail 0x33 was published and a body with another tail was not
DataBodyWitness ==
    /\ Outcomes({"publish"}) # {}
    /\ Outcomes({"tail_mismatch"}) # {}
    /\ Len(published) = Cardinality(Outcomes({"publish"}))
    /\ pc = "loop"
    /\ frame_state = 0

\* C7 as stated: every tail mismatch and every checksum mismatch has incremented
\* the error counter and called the error callback
MismatchReported ==
    /\ Cardinality(Outcomes({"tail_mismatch", "checksum_mismatch"})) <= errors
    /\ Cardinality(Outcomes({"tail_mismatch", "checksum_mismatch"})) <= Len(error_log)

\* C8: when the last byte of a command frame is not the sum modulo 256 of the
\* bytes before it, the step that reads payload and checksum accepts no command,
\* delivers nothing to any consumer or callback, and resets frame_state to 0
ChecksumRejection ==
    [][(pc = "read_payload" /\ pc' # pc)
       => LET content_checksum == Peek(rx_buffer, length + 1)
              before == <<CMD_LEAD1, CMD_LEAD2, cmd_id, length>>
                          \o SubSeq(content_checksum, 1, Len(content_checksum) - 1)
          IN (/\ Len(content_checksum) = length + 1
              /\ content_checksum[Len(content_checksum)] # WireChecksum(before))
             => /\ cmd_log' = cmd_log
                /\ published' = published
                /\ callback_log' = callback_log
                /\ bufs' = bufs
                /\ due' = due
                /\ frame_state' = 0
                /\ pc' = "loop"]_vars

\* a command frame with payload 01 02, length 2 and a checksum one too small was
\* read and refused, and one with the right checksum was accepted
ChecksumRejectionWitness ==
    /\ Outcomes({"checksum_mismatch"}) # {}
    /\ Outcomes({"accepted"}) # {}
    /\ Len(cmd_log) = Cardinality(Outcomes({"accepted"}))
    /\ \E i \in DOMAIN segs : segs[i].kind = "badcmd"
    /\ Quiet

RECURSIVE IsSubsequence(_, _)
IsSubsequence(a, b) ==
    IF a = <<>> THEN TRUE
    ELSE IF b = <<>> THEN FALSE
    ELSE IF Head(a) = Head(b) THEN IsSubsequence(Tail(a), Tail(b))
    ELSE IsSubsequence(a, Tail(b))

\* C21: the frames a consumer has read from its buffer, followed by those still
\* in the buffer, are the published frames in decode order with some possibly
\* left out; no consumer sees two frames in the opposite order
PerSubscriberOrder ==
    \A h \in Handles : IsSubsequence(got[h] \o Contents(bufs[h]), published)

\* the consumer with the smaller buffer has read two frames in decode order with
\* a published frame missing between or before them, the other one has read at
\* least two frames
PerSubscriberOrderWitness ==
    /\ Len(published) = 3
    /\ Len(got["s1"]) = 2
    /\ got["s1"] # SubSeq(published, 1, 2)
    /\ Len(got["s2"]) >= 2

\* C22: the step in which the decode worker reads a body and publishes its frame
\* leaves every full registered buffer exactly as it was, appends the frame to
\* every registered buffer with room, reports no error for a drop, and puts the
\* decode worker back at the top of its loop in that same step, with no wait
NoBackpressure ==
    [][(pc = "read38" /\ pc' # pc) =>
          /\ pc' = "loop"
          /\ \A h \in subscribers : is_full(bufs[h]) => bufs'[h] = bufs[h]
          /\ published' # published =>
                /\ errors' = errors
                /\ frame_state' = 0
                /\ \A h \in subscribers :
                      ~is_full(bufs[h]) =>
                         Contents(bufs'[h]) =
                            Append(Contents(bufs[h]), published'[Len(published')])]_vars

\* the second frame was dropped for the consumer whose buffer still holds the
\* first one, the other consumer got both, and the decode worker has since taken
\* the first byte of the next frame
NoBackpressureWitness ==
    /\ Len(published) = 2
    /\ due["s1"] = published
    /\ got["s1"] = <<>>
    /\ Contents(bufs["s1"]) = <<published[1]>>
    /\ got["s2"] \o Contents(bufs["s2"]) = published
    /\ pc = "loop"
    /\ frame_state # 0
    /\ errors = 0

----------------------------------------------------------------------------
(* Properties of the TX side *)

\* the chunks of a sequence of chunks, joined
RECURSIVE Flatten(_)
Flatten(chunks) == IF chunks = <<>> THEN <<>> ELSE Head(chunks) \o Flatten(Tail(chunks))

IsPrefix(a, b) == Len(a) <= Len(b) /\ a = SubSeq(b, 1, Len(a))

\* C28 as stated: every chunk handed to the port has between 1 and TxChunk bytes
\* and the chunks joined are a prefix of the bytes send has stored
TxPrefix ==
    /\ \A i \in DOMAIN sent : Len(sent[i]) \in 1..TxChunk
    /\ IsPrefix(Flatten(sent), tx_accepted)

\* C28: every chunk handed to the port has between 1 and TxChunk bytes and every
\* write that returned was followed by one flush; the chunks joined are bytes send
\* has stored, in order and none twice, and they are a prefix of them, with the
\* bytes still held by the worker and the buffer making up the rest, as long as no
\* clear has discarded bytes from the outbound buffer
TxOrder ==
    /\ \A i \in DOMAIN sent : Len(sent[i]) \in 1..TxChunk
    /\ flushed + errors = Len(sent)
    /\ IsSubsequence(Flatten(sent), tx_accepted)
    /\ tx_cleared = <<>> =>
          /\ IsPrefix(Flatten(sent), tx_accepted)
          /\ Flatten(sent) \o tx_data \o Contents(tx_buffer) = tx_accepted

\* two chunks have gone to the port and were flushed, one of them of full size;
\* nothing was cleared and a byte stored by send is still waiting in the buffer
TxOrderWitness ==
    /\ Len(sent) = 2
    /\ \E i \in DOMAIN sent : Len(sent[i]) = TxChunk
    /\ flushed = 2
    /\ tx_cleared = <<>>
    /\ ~is_empty(tx_buffer)
    /\ Flatten(sent) # tx_accepted

----------------------------------------------------------------------------
(* Properties of shutdown and of the worker loops *)

\* C24 as stated: inside close() the flag is cleared before the joins, the port is
\* closed before the buffers are cleared, and once close() has returned the
\* inbound and the outbound buffer are empty
ShutdownOrdering ==
    /\ close_pc # "idle" => ~running
    /\ close_pc \in {"clear_rx", "clear_tx", "returned"} => ~is_open
    /\ close_pc \in {"clear_tx", "returned"} => is_empty(rx_buffer)
    /\ close_pc = "returned" => is_empty(tx_buffer)

\* close() has returned with all three workers ended, and a send() that passed its
\* test of running before the flag was cleared has stored its byte afterwards
SendAfterClose ==
    /\ close_pc = "returned"
    /\ rx_pc = "done"
    /\ tx_pc = "done"
    /\ pc = "done"
    /\ send_pc = "idle"
    /\ send_ret = TRUE
    /\ ~is_empty(tx_buffer)

\* C25 as stated: the bytes the decode worker has counted as available before a
\* read are still in the inbound buffer when it reads, because no other thread
\* removes bytes while the driver is running
CountedBytesStay ==
    /\ (pc = "read38" /\ running) => get_available(rx_buffer) >= BODY_LEN
    /\ pc = "read_hdr" => get_available(rx_buffer) >= 2
    /\ pc = "read_payload" => get_available(rx_buffer) >= length + 1

\* the driver is running, the decode worker has seen 38 bytes available and is
\* about to read them, and a receive() of another thread has taken some of them
StolenBeforeRead ==
    /\ running
    /\ pc = "read38"
    /\ steals > 0
    /\ get_available(rx_buffer) < BODY_LEN

RxTruncates ==
    [][(in_waiting # <<>> /\ in_waiting' = <<>>) =>
          LET k == Min(Len(in_waiting), get_free_space(rx_buffer))
          IN /\ Contents(rx_buffer') = Contents(rx_buffer) \o SubSeq(in_waiting, 1, k)
             /\ rx_bytes' = rx_bytes + k
             /\ fed' = fed \o SubSeq(in_waiting, 1, k)
             /\ errors' = errors
             /\ error_log' = error_log
             /\ running' = running]_vars

\* the port delivered more than the free space: the inbound buffer is full, the
\* bytes stored are fewer than the bytes sent, rx_bytes counts the stored ones and
\* no error was reported
RxTruncatesWitness ==
    /\ wire = <<>>
    /\ in_waiting = <<>>
    /\ is_full(rx_buffer)
    /\ Len(fed) < Len(StreamOf(segs))
    /\ rx_bytes = Len(fed)
    /\ errors = 0

----------------------------------------------------------------------------
(* Properties of the header scan *)

\* the decode worker takes one byte at the top of its loop in this step
TakesByte == pc = "loop" /\ rx_buffer'.read_pos # rx_buffer.read_pos

\* the byte it takes
NextByte == Peek(rx_buffer, 1)[1]

\* C29: a byte taken in frame_state 0 leads to frame_state 1 when it is 0xA9, to
\* frame_state 2 when it is 0x05 and to frame_state 0 otherwise; a byte taken in
\* frame_state 1 leads to frame_state 1 when it is 0xA9, to frame_state 2 when it is
\* 0x05 and to frame_state 0 when it is none of 0xB5, 0xA9, 0x05; each such step
\* consumes exactly that one byte and ends at the top of the loop
DataLeadScan ==
    [][(TakesByte /\ frame_state \in {0, 1}
        /\ ~(frame_state = 1 /\ NextByte = DATA_LEAD2)) =>
          /\ frame_state' = IF NextByte = DATA_LEAD1 THEN 1
                            ELSE IF NextByte = CMD_LEAD1 THEN 2 ELSE 0
          /\ pc' = "loop"
          /\ Contents(rx_buffer') = Tail(Contents(rx_buffer))]_vars

\* the stray bytes A9, A9, 05 have been scanned: the repeated A9 kept frame_state
\* 1 and the 05 switched it to 2
DataLeadScanWitness ==
    /\ Quiet
    /\ NothingDropped
    /\ StreamOf(segs) = <<DATA_LEAD1, DATA_LEAD1, CMD_LEAD1>>
    /\ frame_state = 2

\* C30 as stated: in frame_state 2 a byte 0x05 leads to frame_state 1 and a byte
\* that is neither 0x05 nor 0x1C leads to frame_state 0
CmdLeadScanAsStated ==
    [][(TakesByte /\ frame_state = 2 /\ NextByte # CMD_LEAD2) =>
          frame_state' = IF NextByte = CMD_LEAD1 THEN 1 ELSE 0]_vars

\* C30: in frame_state 2 a byte that is not 0x1C leads to frame_state 2 when it is
\* 0x05, to frame_state 1 when it is 0xA9 and to frame_state 0 otherwise; the step
\* consumes exactly that one byte and ends at the top of the loop
CmdLeadScan ==
    [][(TakesByte /\ frame_state = 2 /\ NextByte # CMD_LEAD2) =>
          /\ frame_state' = IF NextByte = CMD_LEAD1 THEN 2
                            ELSE IF NextByte = DATA_LEAD1 THEN 1 ELSE 0
          /\ pc' = "loop"
          /\ Contents(rx_buffer') = Tail(Contents(rx_buffer))]_vars

\* the stray bytes 05, 05, A9 have been scanned: the repeated 05 kept frame_state
\* 2 and the A9 switched it to 1
CmdLeadScanWitness ==
    /\ Quiet
    /\ NothingDropped
    /\ StreamOf(segs) = <<CMD_LEAD1, CMD_LEAD1, DATA_LEAD1>>
    /\ frame_state = 1

----------------------------------------------------------------------------
(* Properties of the waits inside a frame *)

\* the messages the decode worker hands to _handle_error
ParseReports == {"parse_worker", "parse_data_frame", "frame_tail"}

\* the number of bytes the decode worker waits for at its position, 0 outside a wait
Needed ==
    CASE pc = "wait38" -> BODY_LEN
      [] pc = "wait_hdr" -> 2
      [] pc = "wait_payload" -> length + 1
      [] OTHER -> 0

\* the decode worker is inside a wait, the driver runs and the bytes are not there
Suspended == running /\ get_available(rx_buffer) < Needed

\* the position after a wait
AfterWait ==
    CASE pc = "wait38" -> "read38"
      [] pc = "wait_hdr" -> "check_hdr"
      [] OTHER -> "check_payload"

\* C31: while the decode worker waits for the rest of a frame (38 bytes of a body, 2
\* bytes of cmd_id and length, length + 1 bytes of payload and checksum), the driver
\* runs and the bytes are not there, no step takes a byte out of the inbound buffer,
\* reports a decode error, records a frame attempt or changes frame_state, cmd_id,
\* length or the position of the worker; and a running worker leaves a wait only
\* with the bytes there, for the read of that same frame, the buffer untouched
SuspendOnly ==
    [][/\ Suspended =>
             /\ pc' = pc
             /\ frame_state' = frame_state
             /\ cmd_id' = cmd_id
             /\ length' = length
             /\ attempts' = attempts
             /\ rx_buffer'.read_pos = rx_buffer.read_pos
             /\ get_available(rx_buffer') >= get_available(rx_buffer)
             /\ \/ error_log' = error_log
                \/ error_log'[Len(error_log')] \notin ParseReports
       /\ (running /\ Needed > 0 /\ pc' # pc) =>
             /\ get_available(rx_buffer) >= Needed
             /\ pc' = AfterWait
             /\ rx_buffer' = rx_buffer
             /\ frame_state' = frame_state
             /\ cmd_id' = cmd_id
             /\ length' = length]_vars

\* the decode worker has read cmd_id and length of a command frame and waits for its
\* payload, of which nothing is in the buffer yet, while the rest of the frame has
\* reached the port
SuspendOnlyWitness ==
    /\ Suspended
    /\ pc = "wait_payload"
    /\ length = 2
    /\ is_empty(rx_buffer)
    /\ wire = <<>>
    /\ in_waiting # <<>>

----------------------------------------------------------------------------
(* SpecFrame: the decode worker has taken the lead bytes A9 B5 of a data frame and
   the 38 bytes of its body are in the inbound buffer; the body is any of a family
   of byte patterns in which one 16-bit word takes an extreme value *)

\* values of a 16-bit word, low byte first: 0, 32767, -32768, -1, 255 and 256
WordValues == {<<0, 0>>, <<255, 127>>, <<0, 128>>, <<255, 255>>, <<255, 0>>, <<0, 1>>}

\* the body with pattern k, its bytes 2w and 2w + 1 replaced by the word, and the
\* given tail byte
PatternBody(k, w, word, tail) ==
    [i \in 1..BODY_LEN |->
        IF i = BODY_LEN THEN tail
        ELSE IF i = 2 * w + 1 THEN word[1]
        ELSE IF i = 2 * w + 2 THEN word[2]
        ELSE (i * 7 + k) % 256]

InitFrame ==
    /\ \E k \in 0..MaxPattern, w \in 0..17, word \in WordValues, tail \in {TAIL, 0} :
          LET stream == <<DATA_LEAD1, DATA_LEAD2>> \o PatternBody(k, w, word, tail)
              stored == Write(NewBuffer(RxSize, BYTEARRAY), stream, "bytes")
          IN /\ rx_buffer = Read(stored.buf, 2).buf
             /\ rx_bytes = stored.ret
             /\ fed = stream
    /\ cb = NewBuffer(1, BYTEARRAY)
    /\ last_op = "init"
    /\ last_arg = 0
    /\ last_ret = 0
    /\ accepted = <<>>
    /\ removed = 0
    /\ issued = 0
    /\ running = TRUE
    /\ wire = <<>>
    /\ in_waiting = <<>>
    /\ segs = <<>>
    /\ errors = 0
    /\ error_log = <<>>
    /\ frame_state = 1
    /\ pc = "read38"
    /\ cmd_id = 0
    /\ length = 0
    /\ subscribers = {"s1", "s2"}
    /\ bufs = [h \in Handles |-> NewBuffer(SubCapOf(h), LIST)]
    /\ seen = <<DATA_LEAD1, DATA_LEAD2>>
    /\ steals = 0
    /\ published = <<>>
    /\ bodies = <<>>
    /\ callback_log = <<>>
    /\ cmd_log = <<>>
    /\ attempts = <<>>
    /\ due = [h \in Handles |-> <<>>]
    /\ got = [h \in Handles |-> <<>>]
    /\ LockIdle
    /\ DrvOpen

NextFrame == ParseReadBody

SpecFrame == InitFrame /\ [][NextFrame]_vars

\* v is the signed 16-bit value of the bytes lo, hi (low byte first)
IsInt16LE(v, lo, hi) ==
    /\ v \in -32768..32767
    /\ (v - (lo + 256 * hi)) % 65536 = 0

\* C32: in every published frame, with b the 38-byte body it was decoded from, the
\* ADC words at bytes 0, 2, 4, 6 are the adc of channels 1, 0, 2, 3; the SDADC words
\* at bytes 8, 10, 12 are sdadc0 of channels 0, 1, 2, those at 14, 16 sdadc1 of
\* channels 0, 1, that at 18 sdadc0 of channel 3 and those at 20, 22 sdadc1 of
\* channels 2, 3, all little-endian and signed; bytes 24..27 are adj0 and bytes
\* 28..31 adj1 of channels 0..3; bytes 32-33 and 34-35 are the unsigned
\* little-endian master and slave sequence, and byte 36 is the device state
FieldDecoding ==
    \A i \in DOMAIN published :
        LET f == published[i]
            b == bodies[i].body
            W(off, v) == IsInt16LE(v, b[off + 1], b[off + 2])
        IN /\ Len(b) = BODY_LEN
           /\ W(0, f.channels[1].adc)
           /\ W(2, f.channels[0].adc)
           /\ W(4, f.channels[2].adc)
           /\ W(6, f.channels[3].adc)
           /\ W(8, f.channels[0].sdadc0)
           /\ W(10, f.channels[1].sdadc0)
           /\ W(12, f.channels[2].sdadc0)
           /\ W(14, f.channels[0].sdadc1)
           /\ W(16, f.channels[1].sdadc1)
           /\ W(18, f.channels[3].sdadc0)
           /\ W(20, f.channels[2].sdadc1)
           /\ W(22, f.channels[3].sdadc1)
           /\ \A c \in 0..3 : /\ f.channels[c].adj0 = b[24 + c + 1]
                              /\ f.channels[c].adj1 = b[28 + c + 1]
           /\ f.master_frame = b[33] + 256 * b[34]
           /\ f.slave_frame = b[35] + 256 * b[36]
           /\ f.lidar_state = b[37]

\* a frame was published whose second ADC word is 00 80: channel 0 has adc -32768
\* and channel 1 has the value of the first word
FieldDecodingWitness ==
    /\ Len(published) = 1
    /\ bodies[1].body[3] = 0
    /\ bodies[1].body[4] = 128
    /\ published[1].channels[0].adc = -32768
    /\ published[1].channels[1].adc # -32768

----------------------------------------------------------------------------
(* DataStructures/command_frame.py: UartControl *)

\* the fields of UartControl in the order of the dataclass (lines 14-38), which is
\* the order of the arguments of struct.pack and of cls(*values)
ControlFields ==
    <<"uart_upload_time", "adj_time", "fashion_time", "pos_low", "pos_high", "pos_div",
      "pos_set", "flag_mask", "lidar_time">>

\* len(data) != 18 (line 58)
CONTROL_LEN == 18

\* a field value struct.pack takes for the format H
IsUInt16(v) == v \in 0..65535

\* variant of ToBytes: the low byte of each field comes first ('<HHHHHHHHH')
ToBytesLittleEndian(c) ==
    IF \E j \in DOMAIN ControlFields : ~IsUInt16(c[ControlFields[j]])
    THEN [raised |-> TRUE, ret |-> <<>>]
    ELSE [raised |-> FALSE,
          ret |-> [i \in 1..(2 * Len(ControlFields)) |->
                     LET v == c[ControlFields[(i + 1) \div 2]]
                     IN IF i % 2 = 1 THEN v % 256 ELSE v \div 256]]

\* UartControl.to_bytes: struct.pack('>HHHHHHHHH', ...) (lines 41-53); a field
\* outside 0..65535 raises struct.error
ToBytes(c) ==
    IF \E j \in DOMAIN ControlFields : ~IsUInt16(c[ControlFields[j]])
    THEN [raised |-> TRUE, ret |-> <<>>]
    ELSE [raised |-> FALSE,
          ret |-> [i \in 1..(2 * Len(ControlFields)) |->
                     LET v == c[ControlFields[(i + 1) \div 2]]
                     IN IF i % 2 = 1 THEN v \div 256 ELSE v % 256]]

\* variant of FromBytes: any input of at least 18 bytes is taken (the test of line
\* 58 replaced by len(data) < 18, the rest of the input ignored)
FromBytesLonger(data) ==
    IF Len(data) < CONTROL_LEN
    THEN [raised |-> TRUE, ret |-> None]
    ELSE [raised |-> FALSE,
          ret |-> [f \in {ControlFields[j] : j \in DOMAIN ControlFields} |->
                     LET j == CHOOSE j \in DOMAIN ControlFields : ControlFields[j] = f
                     IN 256 * data[2 * j - 1] + data[2 * j]]]

\* UartControl.from_bytes (lines 55-62): ValueError unless len(data) == 18, else
\* cls(*struct.unpack('>HHHHHHHHH', data))
FromBytes(data) ==
    IF Len(data) # CONTROL_LEN
    THEN [raised |-> TRUE, ret |-> None]
    ELSE [raised |-> FALSE,
          ret |-> [f \in {ControlFields[j] : j \in DOMAIN ControlFields} |->
                     LET j == CHOOSE j \in DOMAIN ControlFields : ControlFields[j] = f
                     IN 256 * data[2 * j - 1] + data[2 * j]]]

\* values of one field: the ends of the range of a byte and of 16 bits, and the
\* first values outside 0..65535
FieldValues == {0, 255, 256, 65535, 65536, -1}

\* the control block of the module's own test (lines 248-258) shifted by k, with
\* its j-th field replaced by v
ControlBlock(k, j, v) ==
    [f \in {ControlFields[i] : i \in DOMAIN ControlFields} |->
        LET i == CHOOSE i \in DOMAIN ControlFields : ControlFields[i] = f
        IN IF i = j THEN v
           ELSE IF f = "flag_mask" THEN 4660 + k
           ELSE IF f = "lidar_time" THEN 800 + k
           ELSE 100 * i + k]

\* data cut or padded with zero bytes to n bytes
Resized(data, n) == [i \in 1..n |-> IF i <= Len(data) THEN data[i] ELSE 0]

----------------------------------------------------------------------------
(* SpecCtl: a control block is built, serialized, and the bytes, whole, cut or
   padded, are parsed back *)

InitCtl ==
    /\ last_op = "init"
    /\ \E k \in 0..MaxPattern, j \in DOMAIN ControlFields, v \in FieldValues :
          last_arg = ControlBlock(k, j, v)
    /\ last_ret = None
    /\ cb = NewBuffer(1, BYTEARRAY)
    /\ accepted = <<>>
    /\ removed = 0
    /\ issued = 0
    /\ DecIdle
    /\ LockIdle
    /\ DrvIdle

\* c.to_bytes()
CtlToBytes ==
    /\ last_op = "init"
    /\ last_op' = "to_bytes"
    /\ last_ret' = ToBytes(last_arg)
    /\ UNCHANGED <<last_arg, cb, accepted, removed, issued, decVars, lockVars, busVars, drvVars>>

\* UartControl.from_bytes(data), data being the serialized block cut or padded to
\* n bytes
CtlFromBytes(n) ==
    /\ last_op = "to_bytes"
    /\ ~last_ret.raised
    /\ last_op' = "from_bytes"
    /\ last_arg' = Resized(last_ret.ret, n)
    /\ last_ret' = FromBytes(Resized(last_ret.ret, n))
    /\ UNCHANGED <<cb, accepted, removed, issued, decVars, lockVars, busVars, drvVars>>

NextCtl ==
    \/ CtlToBytes
    \/ \E n \in {0, CONTROL_LEN - 1, CONTROL_LEN, CONTROL_LEN + 1} : CtlFromBytes(n)

SpecCtl == InitCtl /\ [][NextCtl]_vars

\* every field of the block c is in 0..65535
ControlInRange(c) == \A j \in DOMAIN ControlFields : IsUInt16(c[ControlFields[j]])

\* C33: to_bytes of a control block with fields in 0..65535 gives exactly 18 bytes,
\* the fields upload interval, adjust interval, servo move time, position low, high,
\* divisor, set, work-mode flags, lidar delay in this order, each as two bytes with
\* the high byte first; from_bytes of these bytes gives the block back; and
\* from_bytes of an input whose length is not 18 raises
ControlRoundTrip ==
    [][/\ (last_op' = "to_bytes" /\ ControlInRange(last_arg)) =>
             /\ ~last_ret'.raised
             /\ Len(last_ret'.ret) = 18
             /\ \A j \in 1..9 :
                   256 * last_ret'.ret[2 * j - 1] + last_ret'.ret[2 * j]
                      = last_arg[<<"uart_upload_time", "adj_time", "fashion_time",
                                   "pos_low", "pos_high", "pos_div", "pos_set",
                                   "flag_mask", "lidar_time">>[j]]
             /\ \A i \in 1..18 : last_ret'.ret[i] \in 0..255
       /\ (last_op' = "from_bytes" /\ Len(last_arg') # 18) => last_ret'.raised
       /\ (last_op' = "from_bytes" /\ last_arg' = last_ret.ret) =>
             /\ ~last_ret'.raised
             /\ last_ret'.ret = last_arg]_vars

\* a block whose work-mode flags are 65535 was serialized to 18 bytes with FF FF at
\* bytes 14 and 15, and from_bytes of these bytes returned a block with the flags
\* 65535 and the lidar delay of the test block
ControlRoundTripWitness ==
    /\ last_op = "from_bytes"
    /\ Len(last_arg) = 18
    /\ last_arg[15] = 255
    /\ last_arg[16] = 255
    /\ ~last_ret.raised
    /\ last_ret.ret.flag_mask = 65535
    /\ last_ret.ret.lidar_time = 800

----------------------------------------------------------------------------
(* Properties of the body read under interference *)

\* C34: when the decode worker reads the body of a data frame and fewer than 38
\* bytes are in the inbound buffer, because running was cleared during the wait or
\* because another thread has taken or cleared bytes after it, the step publishes
\* no frame, passes none to frame_parsed_callback and writes into no consumer's
\* buffer; and every body a frame was decoded from has 38 bytes
ShortBodyRefused ==
    [][(pc = "read38" /\ pc' # pc) =>
          /\ get_available(rx_buffer) < BODY_LEN =>
                /\ published' = published
                /\ callback_log' = callback_log
                /\ bufs' = bufs
                /\ bodies' = bodies
          /\ \A i \in DOMAIN bodies' : Len(bodies'[i].body) = BODY_LEN]_vars

\* the driver runs, another thread has taken a byte of a complete frame between the
\* wait and the read, the 37 bytes read ended in 0x33 and decoding them raised:
\* the only frame attempt so far has published nothing
ShortBodyWitness ==
    /\ running
    /\ steals > 0
    /\ pc = "loop"
    /\ attempts = <<[kind |-> "data", outcome |-> "raised"]>>
    /\ published = <<>>
    /\ callback_log = <<>>
    /\ \A h \in Handles : is_empty(bufs[h])

----------------------------------------------------------------------------
(* SpecPub: DataStructures/data_frame.py, DataFramePublisher, with its lock and the
   locks of the consumer buffers: the decode worker publishes, each of two consumers
   reads its own buffer, and another thread subscribes and unsubscribes these two
   buffers *)

\* the buffer a reading thread owns
BufferOf(t) == IF t = "reader1" THEN "s1" ELSE "s2"

\* DataFramePublisher.publish(frame) is called by the decode worker (line 318 of
\* simple_uart.py): it arrives at `with cls._lock` (line 128)
PubCall ==
    /\ bt["decoder"].pc = "idle"
    /\ Len(published) < MaxPub
    /\ published' = Append(published, BusFrame(Len(published) + 1))
    /\ bt' = [bt EXCEPT !["decoder"] =
                [IdleBusThread EXCEPT !.pc = "want_pub", !.op = "publish"]]
    /\ UNCHANGED <<bufVars, lockVars, running, wire, in_waiting, segs, rx_buffer, rx_bytes,
                   errors, error_log, frame_state, pc, cmd_id, length, subscribers, bufs, fed,
                   seen, steals, bodies, callback_log, cmd_log, attempts, due, got, drvVars,
                   pub_lock, buf_lock>>

\* subscribe(buffer) or unsubscribe(buffer) is called: the thread arrives at
\* `with cls._lock` (lines 94, 111)
RegCall(op, h) ==
    /\ bt["registrar"].pc = "idle"
    /\ bt' = [bt EXCEPT !["registrar"] =
                [IdleBusThread EXCEPT !.pc = "want_pub", !.op = op, !.h = h]]
    /\ UNCHANGED <<bufVars, lockVars, decVars, drvVars, pub_lock, buf_lock>>

\* variant of PubAcquire: subscribe and unsubscribe do not wait for the lock (the
\* `with cls._lock` of lines 94 and 111 dropped)
PubAcquireRegistrarFree(t) ==
    /\ bt[t].pc = "want_pub"
    /\ pub_lock = "none" \/ t = "registrar"
    /\ pub_lock' = IF t = "registrar" THEN pub_lock ELSE t
    /\ bt' = [bt EXCEPT ![t].pc = "in_pub",
                        ![t].size = Cardinality(subscribers),
                        ![t].registered = subscribers]
    /\ UNCHANGED <<bufVars, lockVars, decVars, drvVars, buf_lock>>

\* `with cls._lock`: the thread enters once the lock is free (threading.Lock, line
\* 74); publish then starts its loop over cls._subscribers (lines 129-130), the
\* iterator remembering the size of the set
PubAcquire(t) ==
    /\ bt[t].pc = "want_pub"
    /\ pub_lock = "none"
    /\ pub_lock' = t
    /\ bt' = [bt EXCEPT ![t].pc = "in_pub",
                        ![t].size = Cardinality(subscribers),
                        ![t].registered = subscribers]
    /\ UNCHANGED <<bufVars, lockVars, decVars, drvVars, buf_lock>>

\* the body of subscribe (lines 95-98) or unsubscribe (lines 112-115) and the
\* return, which releases the lock
RegBody ==
    /\ bt["registrar"].pc = "in_pub"
    /\ LET h == bt["registrar"].h
           res == IF bt["registrar"].op = "subscribe"
                  THEN SubscribeResult(subscribers, h)
                  ELSE UnsubscribeResult(subscribers, h)
       IN /\ subscribers' = res.subs
          /\ last_op' = bt["registrar"].op
          /\ last_arg' = h
          /\ last_ret' = res.ret
    /\ pub_lock' = IF pub_lock = "registrar" THEN "none" ELSE pub_lock
    /\ bt' = [bt EXCEPT !["registrar"] = IdleBusThread]
    /\ UNCHANGED <<cb, accepted, removed, issued, lockVars, running, wire, in_waiting, segs,
                   rx_buffer, rx_bytes, errors, error_log, frame_state, pc, cmd_id, length,
                   bufs, fed, seen, steals, published, bodies, callback_log, cmd_log, attempts,
                   due, got, drvVars, buf_lock>>

\* `for buffer in cls._subscribers` (line 130): the next buffer, and the call of
\* buffer.write([frame]) up to its `with self.lock` (line 60 of circular_buffer.py);
\* a set whose size has changed since the loop began raises RuntimeError, which
\* leaves publish (recorded as publish_raised); after the last buffer success_count is returned (line 141)
PubIterate ==
    /\ bt["decoder"].pc = "in_pub"
    /\ bt["decoder"].op = "publish"
    /\ IF Cardinality(subscribers) # bt["decoder"].size
       THEN /\ pub_lock' = "none"
            /\ last_op' = "publish_raised"
            /\ last_arg' = Len(published)
            /\ last_ret' = 0
            /\ bt' = [bt EXCEPT !["decoder"].pc = "idle"]
       ELSE IF subscribers \ bt["decoder"].visited = {}
       THEN /\ pub_lock' = "none"
            /\ last_op' = "publish"
            /\ last_arg' = Len(published)
            /\ last_ret' = bt["decoder"].success_count
            /\ bt' = [bt EXCEPT !["decoder"].pc = "idle"]
       ELSE /\ \E h \in subscribers \ bt["decoder"].visited :
                  bt' = [bt EXCEPT !["decoder"].pc = "want_buf", !["decoder"].h = h]
            /\ UNCHANGED <<pub_lock, last_op, last_arg, last_ret>>
    /\ UNCHANGED <<cb, accepted, removed, issued, lockVars, decVars, drvVars, buf_lock>>

\* frames = self.buffer.read() in _write_loop (line 294) is called: the thread
\* arrives at `with self.lock` (line 114 of circular_buffer.py)
BusReadCall(t) ==
    /\ bt[t].pc = "idle"
    /\ bt' = [bt EXCEPT ![t] =
                [IdleBusThread EXCEPT !.pc = "want_buf", !.op = "read", !.h = BufferOf(t)]]
    /\ UNCHANGED <<bufVars, lockVars, decVars, drvVars, pub_lock, buf_lock>>

\* `with self.lock` of write and read: the thread enters once no other thread owns
\* the lock of the buffer (threading.RLock, line 38 of circular_buffer.py)
BufAcquire(t) ==
    /\ bt[t].pc = "want_buf"
    /\ buf_lock[bt[t].h] = "none"
    /\ buf_lock' = [buf_lock EXCEPT ![bt[t].h] = t]
    /\ bt' = [bt EXCEPT ![t].pc = "in_buf"]
    /\ UNCHANGED <<bufVars, lockVars, decVars, drvVars, pub_lock>>

\* the body of buffer.write([frame]) and lines 135-139 of publish: the lock of the
\* buffer is released when write returns or raises
PubWrite ==
    /\ bt["decoder"].pc = "in_buf"
    /\ LET h == bt["decoder"].h
           frame == published[Len(published)]
           w == Write(bufs[h], <<frame>>, "list")
       IN /\ bufs' = [bufs EXCEPT ![h] = IF w.raised THEN bufs[h] ELSE w.buf]
          /\ due' = [due EXCEPT ![h] = Append(due[h], frame)]
          /\ buf_lock' = [buf_lock EXCEPT ![h] = "none"]
          /\ bt' = [bt EXCEPT !["decoder"].pc = "in_pub",
                              !["decoder"].visited = bt["decoder"].visited \cup {h},
                              !["decoder"].success_count =
                                 IF ~w.raised /\ w.ret > 0
                                 THEN bt["decoder"].success_count + 1
                                 ELSE bt["decoder"].success_count]
    /\ UNCHANGED <<bufVars, lockVars, running, wire, in_waiting, segs, rx_buffer, rx_bytes,
                   errors, error_log, frame_state, pc, cmd_id, length, subscribers, fed, seen,
                   steals, published, bodies, callback_log, cmd_log, attempts, got, drvVars,
                   pub_lock>>

\* variant of BusReadBody: the consumer unsubscribes its buffer from inside the
\* read, that is, it arrives at `with cls._lock` while it owns the lock of the buffer
BusReadBodyThenUnsubscribe(t) ==
    /\ t # "decoder"
    /\ bt[t].pc = "in_buf"
    /\ LET h == bt[t].h
           r == ReadAll(bufs[h])
       IN /\ bufs' = [bufs EXCEPT ![h] = r.buf]
          /\ got' = [got EXCEPT ![h] = got[h] \o r.ret]
    /\ bt' = [bt EXCEPT ![t].pc = "want_pub", ![t].op = "unsubscribe"]
    /\ UNCHANGED <<bufVars, lockVars, running, wire, in_waiting, segs, rx_buffer, rx_bytes,
                   errors, error_log, frame_state, pc, cmd_id, length, subscribers, fed, seen,
                   steals, published, bodies, callback_log, cmd_log, attempts, due, drvVars,
                   pub_lock, buf_lock>>

\* the body of buffer.read() and its return, which releases the lock of the buffer
BusReadBody(t) ==
    /\ t # "decoder"
    /\ bt[t].pc = "in_buf"
    /\ LET h == bt[t].h
           r == ReadAll(bufs[h])
       IN /\ bufs' = [bufs EXCEPT ![h] = r.buf]
          /\ got' = [got EXCEPT ![h] = got[h] \o r.ret]
          /\ buf_lock' = [buf_lock EXCEPT ![h] = "none"]
    /\ bt' = [bt EXCEPT ![t] = IdleBusThread]
    /\ UNCHANGED <<bufVars, lockVars, running, wire, in_waiting, segs, rx_buffer, rx_bytes,
                   errors, error_log, frame_state, pc, cmd_id, length, subscribers, fed, seen,
                   steals, published, bodies, callback_log, cmd_log, attempts, due, drvVars,
                   pub_lock>>

NextPub ==
    \/ PubCall
    \/ \E op \in {"subscribe", "unsubscribe"}, h \in {"s1", "s2"} : RegCall(op, h)
    \/ \E t \in {"decoder", "registrar"} : PubAcquire(t)
    \/ RegBody
    \/ PubIterate
    \/ \E t \in {"reader1", "reader2"} : BusReadCall(t)
    \/ \E t \in BusThreads : BufAcquire(t)
    \/ PubWrite
    \/ \E t \in {"reader1", "reader2"} : BusReadBody(t)

SpecPub == InitBus /\ [][NextPub]_vars

----------------------------------------------------------------------------
(* Properties of the locks of the publisher and of the consumer buffers *)

\* the thread waits at a `with` for a lock another thread owns
Blocked(t) ==
    \/ bt[t].pc = "want_pub" /\ pub_lock # "none"
    \/ bt[t].pc = "want_buf" /\ buf_lock[bt[t].h] # "none"

\* the owner of the lock the thread waits for
OwnerAhead(t) == IF bt[t].pc = "want_pub" THEN pub_lock ELSE buf_lock[bt[t].h]

\* the buffers whose lock the thread owns
LocksOf(t) == {h \in Handles : buf_lock[h] = t}

\* C35: a thread that arrives at the lock of the publisher owns no lock, a thread
\* that owns the lock of a buffer is inside that buffer's method and arrives at no
\* other lock, and a lock is owned only by a thread inside its with-block: the order
\* is publisher lock, then buffer lock. So every thread that waits for a lock waits
\* for a thread that does not wait, or that waits for one that does not: no state
\* has a cycle of waiting threads, and never are all threads waiting
DeadlockFreedom ==
    /\ \A t \in BusThreads :
          /\ bt[t].pc = "want_pub" => (pub_lock # t /\ LocksOf(t) = {})
          /\ bt[t].pc = "want_buf" => LocksOf(t) = {}
          /\ LocksOf(t) # {} => (bt[t].pc = "in_buf" /\ LocksOf(t) = {bt[t].h})
          /\ pub_lock = t => bt[t].pc \in {"in_pub", "want_buf", "in_buf"}
          /\ Blocked(t) =>
                /\ OwnerAhead(t) # t
                /\ \/ ~Blocked(OwnerAhead(t))
                   \/ ~Blocked(OwnerAhead(OwnerAhead(t)))
    /\ \E t \in BusThreads : ~Blocked(t)

\* the longest chain of waiting: the subscribing thread waits for the lock of the
\* publisher, which the decode worker owns inside publish; the decode worker waits
\* for the lock of a buffer, which its consumer owns inside read
DeadlockFreedomWitness ==
    /\ Blocked("registrar")
    /\ pub_lock = "decoder"
    /\ Blocked("decoder")
    /\ OwnerAhead("decoder") = "reader1"
    /\ bt["reader1"].pc = "in_buf"
    /\ bt["reader2"].pc = "want_buf"

\* the decode worker is inside the with-block of publish
InPublish(b) == b["decoder"].pc \in {"in_pub", "want_buf", "in_buf"}

\* C36: from the moment publish owns the lock of the publisher to its return the set
\* of registered buffers is the one it found, no step of subscribe or unsubscribe
\* takes effect, every buffer it writes into is in that set and is registered when
\* written, and it returns, without an exception, after having visited exactly that
\* set; so a buffer that is not registered, as after unsubscribe returned True, is
\* written by no publish that takes the lock later
PublishAtomic ==
    [][/\ InPublish(bt') =>
             /\ subscribers' = bt'["decoder"].registered
             /\ bt'["decoder"].visited \subseteq bt'["decoder"].registered
       /\ (InPublish(bt) /\ InPublish(bt')) =>
             /\ subscribers' = subscribers
             /\ last_op' = last_op
       /\ (InPublish(bt) /\ ~InPublish(bt')) =>
             /\ last_op' = "publish"
             /\ last_ret' = bt["decoder"].success_count
             /\ bt["decoder"].visited = bt["decoder"].registered
       /\ \A h \in Handles :
             (due'[h] # due[h] \/ Len(Contents(bufs'[h])) > Len(Contents(bufs[h]))) =>
                /\ h \in subscribers
                /\ h \in subscribers'
                /\ h \in bt["decoder"].registered]_vars

\* the second publish found both buffers registered and is writing into one of
\* them, while the thread that wants to unsubscribe that very buffer waits for the
\* lock of the publisher
PublishAtomicWitness ==
    /\ Len(published) = 2
    /\ bt["decoder"].pc = "in_buf"
    /\ bt["decoder"].registered = {"s1", "s2"}
    /\ bt["registrar"].pc = "want_pub"
    /\ bt["registrar"].op = "unsubscribe"
    /\ bt["registrar"].h = bt["decoder"].h

----------------------------------------------------------------------------
(* Properties of the decoding of a complete body *)

\* C37: when the decode worker reads a body and 38 bytes ending in 0x33 are at the
\* head of the inbound buffer, the step publishes one frame, built from these 38
\* bytes, to every registered buffer and to frame_parsed_callback and reports no
\* error; the divisor 256 - adj0 of every channel of a published frame is at least 1
ValidBodyPublished ==
    [][(/\ pc = "read38"
        /\ pc' # pc
        /\ get_available(rx_buffer) >= BODY_LEN
        /\ Peek(rx_buffer, BODY_LEN)[BODY_LEN] = TAIL) =>
          /\ Len(published') = Len(published) + 1
          /\ bodies'[Len(bodies')].body = Peek(rx_buffer, BODY_LEN)
          /\ callback_log' = Append(callback_log, published'[Len(published')])
          /\ \A h \in subscribers : due'[h] = Append(due[h], published'[Len(published')])
          /\ errors' = errors
          /\ error_log' = error_log
          /\ \A c \in 0..3 :
                published'[Len(published')].channels[c].current.divisor \in 1..256]_vars

\* a body whose bytes 24 and 25 are FF FF and whose tail is 0x33 was read: the frame
\* was published with adj0 = 255 and the divisor 1 for channels 0 and 1, and no error
\* was reported
ValidBodyWitness ==
    /\ Len(published) = 1
    /\ bodies[1].body[25] = 255
    /\ published[1].channels[0].adj0 = 255
    /\ published[1].channels[0].current.divisor = 1
    /\ published[1].channels[1].current.divisor = 1
    /\ errors = 0
    /\ callback_log = published

----------------------------------------------------------------------------
(* SpecLive: the open driver with an inbound buffer of RxLive bytes, the RX worker
   and the decode worker as its only consumer; the device sends the header of one
   frame and goes on sending bytes as long as the decode worker waits for some *)

\* the length bytes of the command frames sent: none, some, the largest a byte holds
LiveLengths == {0, 2, 255}

\* the cmd_id for which a payload of zero bytes with checksum 0 is a valid frame
LiveId(len) == (512 - CMD_LEAD1 - CMD_LEAD2 - len) % 256

InitLive ==
    /\ cb = NewBuffer(1, BYTEARRAY)
    /\ last_op = "init"
    /\ last_arg = 0
    /\ last_ret = 0
    /\ accepted = <<>>
    /\ removed = 0
    /\ issued = 0
    /\ running = TRUE
    /\ wire = <<>>
    /\ in_waiting = <<>>
    /\ segs = <<>>
    /\ rx_buffer = NewBuffer(RxLive, BYTEARRAY)
    /\ rx_bytes = 0
    /\ errors = 0
    /\ error_log = <<>>
    /\ frame_state = 0
    /\ pc = "loop"
    /\ cmd_id = 0
    /\ length = 0
    /\ subscribers = {"s1", "s2"}
    /\ bufs = [h \in Handles |-> NewBuffer(SubCapOf(h), LIST)]
    /\ fed = <<>>
    /\ seen = <<>>
    /\ steals = 0
    /\ published = <<>>
    /\ bodies = <<>>
    /\ callback_log = <<>>
    /\ cmd_log = <<>>
    /\ attempts = <<>>
    /\ due = [h \in Handles |-> <<>>]
    /\ got = [h \in Handles |-> <<>>]
    /\ LockIdle
    /\ DrvOpen

\* the device sends the lead bytes of a data frame, or the lead bytes of a command
\* frame followed by cmd_id and the length byte len, the lead bytes reaching the
\* port first
LiveSend(kind, len) ==
    /\ segs = <<>>
    /\ segs' = <<[kind |-> kind, k |-> len]>>
    /\ IF kind = "data"
       THEN /\ in_waiting' = <<DATA_LEAD1, DATA_LEAD2>>
            /\ wire' = <<>>
       ELSE /\ in_waiting' = <<CMD_LEAD1, CMD_LEAD2>>
            /\ wire' = <<LiveId(len), len>>
    /\ UNCHANGED <<bufVars, lockVars, running, rx_buffer, rx_bytes, errors, error_log,
                   frame_state, pc, cmd_id, length, subscribers, bufs, fed, seen, steals,
                   published, bodies, callback_log, cmd_log, attempts, due, got, drvVars,
                   busVars>>

\* the transport keeps delivering: while the decode worker waits for bytes that
\* are not in the inbound buffer and the port is empty, n more bytes, all zero,
\* reach the port
LiveFeed(n) ==
    /\ segs # <<>>
    /\ wire = <<>>
    /\ in_waiting = <<>>
    /\ pc \in {"wait38", "wait_hdr", "wait_payload"}
    /\ get_available(rx_buffer) <
          (IF pc = "wait38" THEN BODY_LEN ELSE IF pc = "wait_hdr" THEN 2 ELSE length + 1)
    /\ in_waiting' = [i \in 1..n |-> 0]
    /\ UNCHANGED <<bufVars, lockVars, running, wire, segs, rx_buffer, rx_bytes, errors,
                   error_log, frame_state, pc, cmd_id, length, subscribers, bufs, fed, seen,
                   steals, published, bodies, callback_log, cmd_log, attempts, due, got,
                   drvVars, busVars>>

\* the steps of the decode worker, the test of line 344 and the read of a byte
\* taken as one
LiveParse ==
    \/ ParseRound
    \/ ParseWaitBody
    \/ ParseReadBody
    \/ ParseWaitHeader
    \/ ParseCheckHeader
    \/ ParseReadHeader
    \/ ParseWaitPayload
    \/ ParseCheckPayload
    \/ ParseReadPayload

\* the steps of the device
LiveDevice ==
    \/ \E kind \in {"data", "cmd"}, len \in LiveLengths : LiveSend(kind, len)
    \/ Arrive
    \/ \E n \in {1, LiveChunk} : LiveFeed(n)

NextLive == LiveDevice \/ RxStep \/ LiveParse

\* the device, the RX worker and the decode worker each go on when they can
SpecLive ==
    /\ InitLive
    /\ [][NextLive]_vars
    /\ WF_vars(LiveDevice)
    /\ WF_vars(RxStep)
    /\ WF_vars(LiveParse)

\* C38: the decode worker never waits for more bytes than the inbound buffer holds
\* (38, 2, or length + 1, which is at most 256), and once it has taken the second
\* lead byte of a frame it comes back to the top of its loop with frame_state 0
DecoderProgress ==
    /\ [](Needed <= rx_buffer.size)
    /\ (pc \in {"wait38", "wait_hdr"}) ~> (pc = "loop" /\ frame_state = 0)

\* a command frame with the length byte 255 has been read to its end, the inbound
\* buffer having held the 256 bytes of payload and checksum at once, and the
\* decode worker is back in frame_state 0
DecoderProgressWitness ==
    /\ pc = "loop"
    /\ frame_state = 0
    /\ length = 255
    /\ Len(attempts) = 1
    /\ attempts[1].kind = "cmd"
    /\ attempts[1].outcome = "accepted"
    /\ rx_bytes >= 260

----------------------------------------------------------------------------
(* SpecSend: send() called again and again, with empty data too, while the TX worker
   drains the outbound buffer and another thread calls close() *)

NextSend ==
    \/ \E n \in 0..TxChunk : SendCheck(n)
    \/ SendWrite
    \/ TxNext(BOOLEAN)
    \/ CloseNext

SpecSend == InitDec /\ [][NextSend]_vars

\* C39: a send that finds the driver not running or the port not open at its test
\* returns False at once and leaves tx_buffer and tx_bytes as they are, and no send
\* goes on to write otherwise; the write of a send appends to tx_buffer the leading
\* bytes of the data that fit into the free space and nothing else, adds their
\* number to tx_bytes, and returns True if at least one byte was appended and False
\* if none was, as with a full buffer
SendContract ==
    [][/\ (send_pc = "idle" /\ send_pc' = "idle" /\ send_ret' # send_ret) =>
             /\ ~running \/ ~is_open
             /\ send_ret' = FALSE
             /\ tx_buffer' = tx_buffer
             /\ tx_bytes' = tx_bytes
       /\ (send_pc = "idle" /\ send_pc' = "write") =>
             /\ running
             /\ is_open
             /\ tx_buffer' = tx_buffer
             /\ tx_bytes' = tx_bytes
       /\ (send_pc = "write" /\ send_pc' = "idle") =>
             LET stored == Min(Len(send_data), tx_buffer.size - Len(Contents(tx_buffer)))
             IN /\ Contents(tx_buffer') =
                      Contents(tx_buffer) \o SubSeq(send_data, 1, stored)
                /\ tx_bytes' = tx_bytes + stored
                /\ send_ret' = (stored > 0)
                /\ is_full(tx_buffer) =>
                      (send_ret' = FALSE /\ tx_buffer' = tx_buffer)]_vars

\* four bytes were handed to send and nothing has left the outbound buffer: the
\* last send found room for the first of its bytes only, stored it, counted it
\* and returned True
SendContractWitness ==
    /\ send_pc = "idle"
    /\ send_ret = TRUE
    /\ tx_issued = 4
    /\ tx_accepted = <<1, 2, 3>>
    /\ Contents(tx_buffer) = <<1, 2, 3>>
    /\ tx_bytes = 3
    /\ sent = <<>>
    /\ tx_cleared = <<>>
    /\ tx_data = <<>>

====
